---- MODULE Spec2Model ----
(***************************************************************************)
(* A model of the text pipeline of vivian: the chunk splitter of           *)
(* utility_functions.py and the HTML cleaning, the download and the file   *)
(* naming of web_client.py.                                                *)
(*                                                                         *)
(* Strings are sequences of one-character strings, so that len(), split()  *)
(* and " ".join() are computed and not assumed.                            *)
(***************************************************************************)
EXTENDS Integers, Sequences, FiniteSets, TLC

VARIABLES
    content,            \* split_content_to_chunks: the argument content
    max_message_size,   \* split_content_to_chunks: the argument max_message_size
    chunk_pc,           \* "call" before the call, "return" after it, "idle" elsewhere
    chunk_result,       \* what the call produced: [raised, chunks]
    doc,                \* the parsed page: its nodes in document order
    alive,              \* the nodes still in the tree (soup)
    html_pc,            \* where get_webpage_text / get_webpage_file stands
    method,             \* "text" for get_webpage_text, "file" for get_webpage_file
    aggressive,         \* self.aggressive_html_cleaning
    main_content,       \* main_content of _remove_non_main_content
    title_element,      \* title_element of _remove_non_main_content
    clean_pass,         \* the passes of _aggressive_clean_html done so far
    output,             \* what the call returns: the nodes rendered and the text
    url,                \* get_webpage_file / get_webpage_text: the argument url
    head_response,      \* what requests.head(url) is going to give: [outcome, content_type]
    get_response,       \* what requests.get(url) is going to give: [outcome, content_type]
    fetch_call,         \* "file" for get_webpage_file, "text" for get_webpage_text
    fetch_pc,           \* where the download stands
    content_type,       \* the local content_type of get_webpage_file
    requests_sent,      \* the requests sent so far, in order
    files,              \* the files of output_dir: a set of [name, content]
    fetch_result,       \* what the download returned
    fetchers,           \* two downloads into one output_dir: where each stands
    directory,          \* the files of tmp_files/: a set of [name, content]
    cache,              \* os.listdir("tmp_files/"): the cached files in listing order
    db_files,           \* the rows of the table files
    db_messages,        \* the rows of the table messages, in the order of creation
    uuid_count,         \* the calls of uuid.uuid4() made so far
    app_pc,             \* where the handler of the application stands
    app_result,         \* what the calls of the handler returned, in order
    viewer_content      \* st.session_state.viewer_content

chunk_vars == <<content, max_message_size, chunk_pc, chunk_result>>

html_vars == <<doc, alive, html_pc, method, aggressive, main_content, title_element,
               clean_pass, output>>

fetch_vars == <<url, head_response, get_response, fetch_call, fetch_pc, content_type,
                requests_sent, files, fetch_result>>

app_vars == <<fetchers, directory, cache, db_files, db_messages, uuid_count, app_pc,
              app_result, viewer_content>>

vars == <<content, max_message_size, chunk_pc, chunk_result, doc, alive, html_pc, method,
          aggressive, main_content, title_element, clean_pass, output, url, head_response,
          get_response, fetch_call, fetch_pc, content_type, requests_sent, files,
          fetch_result, fetchers, directory, cache, db_files, db_messages, uuid_count,
          app_pc, app_result, viewer_content>>

(***************************************************************************)
(* Bounds of the model.                                                    *)
(***************************************************************************)
MaxLen == 6     \* longest content handed to split_content_to_chunks
MaxSize == 3    \* largest max_message_size handed to split_content_to_chunks
MaxNodes == 3   \* most nodes of a parsed page
MaxTail == 2    \* most characters appended to a base URL
MaxText == 4    \* most characters of the text a page is made of
MaxShortNodes == 4  \* most nodes of a page of short texts
MaxBody == 2    \* most characters of a downloaded body
MaxFiles == 2   \* most files of tmp_files/
MaxFileLen == 2 \* most characters of a file of tmp_files/
MaxCalls == 3   \* most calls of create_file in one process
MaxPage == 5    \* most characters of a downloaded page

(***************************************************************************)
(* Characters and strings.                                                 *)
(***************************************************************************)
Whitespace == {" ", "\t"}

Letters == {"a", "b"}

Chars == Letters \cup Whitespace

\* all strings over Chars of length 0..n
Texts(n) == UNION {[1..k -> Chars] : k \in 0..n}

RECURSIVE JoinWith(_, _)
\* sep.join(strs) of Python: the strings of strs with sep between neighbours
JoinWith(sep, strs) ==
    IF strs = <<>> THEN <<>>
    ELSE IF Len(strs) = 1 THEN strs[1]
    ELSE strs[1] \o sep \o JoinWith(sep, Tail(strs))

RECURSIVE SplitLoop(_, _, _)
\* the scan of str.split(): cur is the word being read, acc the words read; a line
\* break separates words as a space and a tab do
SplitLoop(s, cur, acc) ==
    IF s = <<>> THEN (IF cur = <<>> THEN acc ELSE Append(acc, cur))
    ELSE IF Head(s) \in Whitespace \cup {"\n"}
         THEN SplitLoop(Tail(s), <<>>, IF cur = <<>> THEN acc ELSE Append(acc, cur))
         ELSE SplitLoop(Tail(s), Append(cur, Head(s)), acc)

\* a mutant of IsNonEmptyText: empty strings pass too
IsAnyText(s) == TRUE

\* if chunk: a string is kept when it is not empty
IsNonEmptyText(s) == s # <<>>

\* content.split(): the maximal runs of non-whitespace characters, in order
Split(s) == SplitLoop(s, <<>>, <<>>)

\* words[a:b] of Python for 0 <= a (0-based, b exclusive, clipped to the list)
Slice(words, a, b) ==
    LET hi == IF b < Len(words) THEN b ELSE Len(words)
    IN  IF a >= hi THEN <<>> ELSE [k \in 1..(hi - a) |-> words[a + k]]

(***************************************************************************)
(* split_content_to_chunks (utility_functions.py)                          *)
(***************************************************************************)
\* a mutant of NumMessages: floor division in place of ceiling division
NumMessagesFloor(len, size) == len \div size

\* num_messages = (len(content) + max_message_size - 1) // max_message_size
NumMessages(len, size) == (len + size - 1) \div size

\* a mutant of WordsInThisMessage: the test i <= extra_words for i < extra_words
WordsInThisMessageOffByOne(i, words_per_message, extra_words) ==
    IF i <= extra_words THEN words_per_message + 1 ELSE words_per_message

\* words_in_this_message of iteration i (0-based)
WordsInThisMessage(i, words_per_message, extra_words) ==
    IF i < extra_words THEN words_per_message + 1 ELSE words_per_message

\* a mutant of NextWordIndex: the extra word of a chunk is not stepped over
NextWordIndexStale(word_index, words_in_this_message) ==
    IF words_in_this_message > 1 THEN word_index + words_in_this_message - 1
    ELSE word_index + words_in_this_message

\* word_index += words_in_this_message
NextWordIndex(word_index, words_in_this_message) == word_index + words_in_this_message

\* a mutant of MessageText: the words of a chunk are joined with nothing between
MessageTextGlued(message_words) == JoinWith(<<>>, message_words)

\* message_text = " ".join(message_words)
MessageText(message_words) == JoinWith(<<" ">>, message_words)

RECURSIVE ChunkLoop(_, _, _, _, _, _, _)
\* for i in range(num_messages): ... content_chunks.append(message_text)
ChunkLoop(words, num_messages, words_per_message, extra_words, i, word_index, content_chunks) ==
    IF i >= num_messages THEN content_chunks
    ELSE LET n == WordsInThisMessage(i, words_per_message, extra_words)
             message_words == Slice(words, word_index, word_index + n)
         IN  ChunkLoop(words, num_messages, words_per_message, extra_words, i + 1,
                       NextWordIndex(word_index, n),
                       Append(content_chunks, MessageText(message_words)))

\* the call split_content_to_chunks(text, size): total_words // num_messages
\* raises ZeroDivisionError when num_messages is 0
split_content_to_chunks(text, size) ==
    LET num_messages == NumMessages(Len(text), size)
        words == Split(text)
        total_words == Len(words)
    IN  IF num_messages = 0
        THEN [raised |-> "ZeroDivisionError", chunks |-> <<>>]
        ELSE [raised |-> "none",
              chunks |-> ChunkLoop(words, num_messages,
                                   total_words \div num_messages,
                                   total_words % num_messages, 0, 0, <<>>)]

NoResult == [raised |-> "none", chunks |-> <<>>]

Soup == 0       \* the BeautifulSoup object itself, parent of the top-level nodes

None == -1      \* Python's None where a node is expected

NoOutput == [nodes |-> {}, text |-> <<>>]

HtmlIdle ==
    /\ doc = <<>>
    /\ alive = {}
    /\ html_pc = "idle"
    /\ method = "none"
    /\ aggressive = FALSE
    /\ main_content = None
    /\ title_element = None
    /\ clean_pass = 0
    /\ output = NoOutput

\* a response that is never looked at
NoResponse == [outcome |-> "none", content_type |-> <<>>]

\* the download's return value: kind "response" for (response, content), "error" for
\* (message, ""); filename and extension are those of the file written, if any
NoFetchResult ==
    [kind |-> "none", message |-> "", content |-> "", filename |-> <<>>, extension |-> <<>>]

\* no download is going on
FetchIdle ==
    /\ url = <<>>
    /\ head_response = NoResponse
    /\ get_response = NoResponse
    /\ fetch_call = "none"
    /\ fetch_pc = "idle"
    /\ content_type = <<>>
    /\ requests_sent = <<>>
    /\ files = {}
    /\ fetch_result = NoFetchResult

\* st.session_state.viewer_content before any handler has set it
NoViewerContent == [type |-> "none", data |-> <<>>]

\* the application is not part of the run
AppIdle ==
    /\ fetchers = <<>>
    /\ directory = {}
    /\ cache = <<>>
    /\ db_files = {}
    /\ db_messages = <<>>
    /\ uuid_count = 0
    /\ app_pc = "idle"
    /\ app_result = <<>>
    /\ viewer_content = NoViewerContent

(***************************************************************************)
(* The chunk splitter as a state machine: one call on any bounded input.   *)
(***************************************************************************)
InitChunk ==
    /\ content \in Texts(MaxLen)
    /\ max_message_size \in 1..MaxSize
    /\ chunk_pc = "call"
    /\ chunk_result = NoResult
    /\ HtmlIdle
    /\ FetchIdle
    /\ AppIdle

SplitContentToChunks ==
    /\ chunk_pc = "call"
    /\ chunk_result' = split_content_to_chunks(content, max_message_size)
    /\ chunk_pc' = "return"
    /\ UNCHANGED <<content, max_message_size>>
    /\ UNCHANGED html_vars
    /\ UNCHANGED fetch_vars
    /\ UNCHANGED app_vars

NextChunk == SplitContentToChunks

SpecChunk == InitChunk /\ [][NextChunk]_vars

(***************************************************************************)
(* Claims about the chunk splitter.                                        *)
(***************************************************************************)
Returned == chunk_pc = "return"

\* the words of every chunk, chunk after chunk
RECURSIVE ChunkWords(_)
ChunkWords(chunks) ==
    IF chunks = <<>> THEN <<>> ELSE Split(Head(chunks)) \o ChunkWords(Tail(chunks))

RECURSIVE SumWordCounts(_)
SumWordCounts(chunks) ==
    IF chunks = <<>> THEN 0 ELSE Len(Split(Head(chunks))) + SumWordCounts(Tail(chunks))

\* ceil(a / b), stated without the code's arithmetic: the least n with n * b >= a
CeilDiv(a, b) == CHOOSE n \in 0..a : n * b >= a /\ (n = 0 \/ (n - 1) * b < a)

AllWhitespace(s) == \A k \in 1..Len(s) : s[k] \in Whitespace

\* C1: for every non-empty content and positive max_message_size the call returns,
\* and the words of the chunks, concatenated in order, are exactly content.split():
\* nothing dropped, duplicated or reordered, and the word counts add up.
C1_WordsPreserved ==
    (Returned /\ content # <<>>) =>
        /\ chunk_result.raised = "none"
        /\ ChunkWords(chunk_result.chunks) = Split(content)
        /\ SumWordCounts(chunk_result.chunks) = Len(Split(content))

\* C1 witness: a returned call that made several chunks out of several words
C1_Witness ==
    /\ Returned
    /\ Len(Split(content)) >= 2
    /\ Len(chunk_result.chunks) >= 2
    /\ ChunkWords(chunk_result.chunks) = Split(content)

\* C2 (as claimed): split_content_to_chunks("", M) returns the empty sequence
\* and raises nothing, for every M > 0.
C2_EmptyReturnsEmpty ==
    (Returned /\ content = <<>>) =>
        (chunk_result.raised = "none" /\ chunk_result.chunks = <<>>)

\* C3 (as claimed): every chunk text has at most max_message_size characters.
C3_ChunksSizeBounded ==
    Returned =>
        \A k \in 1..Len(chunk_result.chunks) :
            Len(chunk_result.chunks[k]) <= max_message_size

\* C4 (as claimed): for every content with len(content) <= max_message_size the
\* call returns exactly one chunk, holding all the words of content in order.
C4_FitsInOneChunk ==
    (Returned /\ Len(content) <= max_message_size) =>
        /\ chunk_result.raised = "none"
        /\ Len(chunk_result.chunks) = 1
        /\ Split(chunk_result.chunks[1]) = Split(content)

\* C5: where numChunks = ceil(len(content) / max_message_size) is at least 1 (the
\* quotient and remainder by it are defined), exactly numChunks chunks come back,
\* the first remainder of them hold base + 1 words and every later one base words.
C5_WordCountDistribution ==
    (Returned /\ content # <<>>) =>
        LET numChunks == CeilDiv(Len(content), max_message_size)
            totalWords == Len(Split(content))
            base == totalWords \div numChunks
            remainder == totalWords % numChunks
        IN  /\ chunk_result.raised = "none"
            /\ Len(chunk_result.chunks) = numChunks
            /\ \A k \in 1..Len(chunk_result.chunks) :
                   Len(Split(chunk_result.chunks[k])) =
                       IF k <= remainder THEN base + 1 ELSE base

\* C5 witness: a returned call with at least two larger chunks and a smaller one
C5_Witness ==
    /\ Returned
    /\ Len(chunk_result.chunks) >= 3
    /\ Len(Split(content)) % Len(chunk_result.chunks) = 2
    /\ Len(Split(chunk_result.chunks[2])) = Len(Split(chunk_result.chunks[3])) + 1

C7_AllWhitespaceChunks ==
    (Returned /\ content # <<>> /\ AllWhitespace(content)) =>
        /\ chunk_result.raised = "none"
        /\ Len(chunk_result.chunks) = CeilDiv(Len(content), max_message_size)
        /\ \A k \in 1..Len(chunk_result.chunks) : chunk_result.chunks[k] = <<>>

\* C7 witness: whitespace-only content longer than max_message_size, returned
C7_Witness ==
    /\ Returned
    /\ content # <<>>
    /\ AllWhitespace(content)
    /\ Len(content) > max_message_size
    /\ Len(chunk_result.chunks) >= 2

(***************************************************************************)
(* The fixed lists of web_client.py.                                       *)
(***************************************************************************)
\* ad_patterns of _aggressive_clean_html: each r'.*x.*y.*' is the sequence of its
\* literal parts, each part the set of strings it can match (ad[s]?[-_] has four)
ad_patterns == <<
    <<{<<"a", "d", "-">>, <<"a", "d", "_">>, <<"a", "d", "s", "-">>, <<"a", "d", "s", "_">>}>>,
    <<{<<"a", "d", "v", "e", "r", "t", "i", "s", "e", "m", "e", "n", "t">>}>>,
    <<{<<"b", "a", "n", "n", "e", "r">>}>>,
    <<{<<"s", "p", "o", "n", "s", "o", "r">>}>>,
    <<{<<"p", "r", "o", "m", "o">>}>>,
    <<{<<"c", "o", "m", "m", "e", "r", "c", "i", "a", "l">>}>>,
    <<{<<"m", "a", "r", "k", "e", "t", "i", "n", "g">>}>>,
    <<{<<"s", "o", "c", "i", "a", "l">>}>>,
    <<{<<"s", "h", "a", "r", "e">>}>>,
    <<{<<"f", "a", "c", "e", "b", "o", "o", "k">>}>>,
    <<{<<"t", "w", "i", "t", "t", "e", "r">>}>>,
    <<{<<"l", "i", "n", "k", "e", "d", "i", "n">>}>>,
    <<{<<"i", "n", "s", "t", "a", "g", "r", "a", "m">>}>>,
    <<{<<"y", "o", "u", "t", "u", "b", "e">>}>>,
    <<{<<"p", "i", "n", "t", "e", "r", "e", "s", "t">>}>>,
    <<{<<"n", "a", "v">>}>>,
    <<{<<"m", "e", "n", "u">>}>>,
    <<{<<"s", "i", "d", "e", "b", "a", "r">>}>>,
    <<{<<"h", "e", "a", "d", "e", "r">>}>>,
    <<{<<"f", "o", "o", "t", "e", "r">>}>>,
    <<{<<"b", "r", "e", "a", "d", "c", "r", "u", "m", "b">>}>>,
    <<{<<"p", "a", "g", "i", "n", "a", "t", "i", "o", "n">>}>>,
    <<{<<"p", "a", "g", "e", "r">>}>>,
    <<{<<"c", "o", "m", "m", "e", "n", "t">>}>>,
    <<{<<"r", "e", "p", "l", "y">>}>>,
    <<{<<"d", "i", "s", "c", "u", "s", "s", "i", "o", "n">>}>>,
    <<{<<"f", "e", "e", "d", "b", "a", "c", "k">>}>>,
    <<{<<"w", "i", "d", "g", "e", "t">>}>>,
    <<{<<"p", "l", "u", "g", "i", "n">>}>>,
    <<{<<"p", "o", "p", "u", "p">>}>>,
    <<{<<"m", "o", "d", "a", "l">>}>>,
    <<{<<"o", "v", "e", "r", "l", "a", "y">>}>>,
    <<{<<"n", "e", "w", "s", "l", "e", "t", "t", "e", "r">>}>>,
    <<{<<"s", "u", "b", "s", "c", "r", "i", "b", "e">>}>>,
    <<{<<"s", "i", "g", "n", "u", "p">>}>>,
    <<{<<"l", "o", "g", "i", "n">>}>>,
    <<{<<"r", "e", "l", "a", "t", "e", "d">>}>>,
    <<{<<"r", "e", "c", "o", "m", "m", "e", "n", "d">>}>>,
    <<{<<"s", "u", "g", "g", "e", "s", "t">>}>>,
    <<{<<"s", "i", "m", "i", "l", "a", "r">>}>>,
    <<{<<"m", "o", "r", "e">>}, {<<"s", "t", "o", "r", "i", "e", "s">>}>>,
    <<{<<"t", "r", "e", "n", "d", "i", "n", "g">>}>>,
    <<{<<"p", "o", "p", "u", "l", "a", "r">>}>>,
    <<{<<"m", "e", "t", "a">>}>>,
    <<{<<"t", "r", "a", "c", "k">>}>>,
    <<{<<"a", "n", "a", "l", "y", "t", "i", "c", "s">>}>>,
    <<{<<"p", "i", "x", "e", "l">>}>>,
    <<{<<"c", "o", "o", "k", "i", "e">>}>>,
    <<{<<"p", "r", "i", "v", "a", "c", "y">>}>>,
    <<{<<"g", "d", "p", "r">>}>>,
    <<{<<"c", "o", "n", "s", "e", "n", "t">>}>>
>>

\* non_content_patterns of _remove_non_main_content, written the same way
non_content_patterns == <<
    <<{<<"b", "r", "e", "a", "d", "c", "r", "u", "m", "b">>}>>,
    <<{<<"p", "a", "g", "i", "n", "a", "t", "i", "o", "n">>}>>,
    <<{<<"p", "a", "g", "e", "r">>}>>,
    <<{<<"t", "a", "g", "s">>}>>,
    <<{<<"a", "u", "t", "h", "o", "r">>}, {<<"i", "n", "f", "o">>}>>,
    <<{<<"b", "y", "l", "i", "n", "e">>}>>,
    <<{<<"m", "e", "t", "a">>}>>,
    <<{<<"d", "a", "t", "e">>}>>,
    <<{<<"s", "h", "a", "r", "e">>}>>,
    <<{<<"s", "o", "c", "i", "a", "l">>}>>,
    <<{<<"r", "e", "l", "a", "t", "e", "d">>}>>,
    <<{<<"r", "e", "c", "o", "m", "m", "e", "n", "d">>}>>,
    <<{<<"c", "o", "m", "m", "e", "n", "t">>}>>,
    <<{<<"r", "e", "p", "l", "y">>}>>,
    <<{<<"d", "i", "s", "c", "u", "s", "s", "i", "o", "n">>}>>
>>

\* structural_selectors of _remove_non_main_content, each a CSS selector of one simple test
structural_selectors == <<
    [by |-> "tag", value |-> "nav"],
    [by |-> "tag", value |-> "header"],
    [by |-> "tag", value |-> "footer"],
    [by |-> "tag", value |-> "aside"],
    [by |-> "tag", value |-> "sidebar"],
    [by |-> "role", value |-> "navigation"],
    [by |-> "role", value |-> "banner"],
    [by |-> "role", value |-> "contentinfo"],
    [by |-> "role", value |-> "complementary"],
    [by |-> "class", value |-> <<"s", "i", "d", "e", "b", "a", "r">>],
    [by |-> "class", value |-> <<"n", "a", "v">>],
    [by |-> "class", value |-> <<"n", "a", "v", "i", "g", "a", "t", "i", "o", "n">>],
    [by |-> "class", value |-> <<"h", "e", "a", "d", "e", "r">>],
    [by |-> "class", value |-> <<"f", "o", "o", "t", "e", "r">>],
    [by |-> "class", value |-> <<"a", "s", "i", "d", "e">>],
    [by |-> "id", value |-> <<"s", "i", "d", "e", "b", "a", "r">>],
    [by |-> "id", value |-> <<"n", "a", "v">>],
    [by |-> "id", value |-> <<"n", "a", "v", "i", "g", "a", "t", "i", "o", "n">>],
    [by |-> "id", value |-> <<"h", "e", "a", "d", "e", "r">>],
    [by |-> "id", value |-> <<"f", "o", "o", "t", "e", "r">>],
    [by |-> "id", value |-> <<"a", "s", "i", "d", "e">>]
>>

\* main_selectors of _find_main_content_area
main_selectors == <<
    [by |-> "id", value |-> <<"m", "a", "i", "n">>],
    [by |-> "id", value |-> <<"c", "o", "n", "t", "e", "n", "t">>],
    [by |-> "id", value |-> <<"m", "a", "i", "n", "-", "c", "o", "n", "t", "e", "n", "t">>],
    [by |-> "id", value |-> <<"p", "r", "i", "m", "a", "r", "y">>],
    [by |-> "id", value |-> <<"a", "r", "t", "i", "c", "l", "e">>],
    [by |-> "class", value |-> <<"m", "a", "i", "n">>],
    [by |-> "class", value |-> <<"c", "o", "n", "t", "e", "n", "t">>],
    [by |-> "class", value |-> <<"m", "a", "i", "n", "-", "c", "o", "n", "t", "e", "n", "t">>],
    [by |-> "class", value |-> <<"p", "r", "i", "m", "a", "r", "y">>],
    [by |-> "class", value |-> <<"a", "r", "t", "i", "c", "l", "e">>],
    [by |-> "class", value |-> <<"p", "o", "s", "t">>],
    [by |-> "class", value |-> <<"e", "n", "t", "r", "y">>],
    [by |-> "class", value |-> <<"s", "t", "o", "r", "y">>]
>>

\* title_selectors of _find_article_title
title_selectors == <<
    [by |-> "class", value |-> <<"t", "i", "t", "l", "e">>],
    [by |-> "class", value |-> <<"h", "e", "a", "d", "l", "i", "n", "e">>],
    [by |-> "class", value |-> <<"p", "o", "s", "t", "-", "t", "i", "t", "l", "e">>],
    [by |-> "class", value |-> <<"e", "n", "t", "r", "y", "-", "t", "i", "t", "l", "e">>],
    [by |-> "class", value |-> <<"a", "r", "t", "i", "c", "l", "e", "-", "t", "i", "t", "l", "e">>],
    [by |-> "class*", value |-> <<"t", "i", "t", "l", "e">>],
    [by |-> "class*", value |-> <<"h", "e", "a", "d", "l", "i", "n", "e">>]
>>

\* structural_tags of _aggressive_clean_html (searched as tag names)
structural_tags == <<"nav", "header", "footer", "aside", "menu", "menuitem", "toolbar", "banner", "complementary", "contentinfo", "navigation", "search">>

\* unwanted_roles of _aggressive_clean_html
unwanted_roles == <<"banner", "navigation", "complementary", "contentinfo", "search", "form", "dialog", "alertdialog", "menu", "menubar">>

\* form_elements of _aggressive_clean_html
form_elements == <<"form", "input", "button", "select", "textarea", "fieldset">>

\* media_elements of _aggressive_clean_html
media_elements == <<"iframe", "embed", "object", "applet">>

\* the tags that keep a short element in _aggressive_clean_html
meaningful_tags == <<"p", "h1", "h2", "h3", "h4", "h5", "h6", "li", "td", "th">>

\* the tags the short-text pass of _aggressive_clean_html looks at
short_text_tags == <<"div", "span", "section", "article">>

\* the tags that keep a textless element in the last pass of _aggressive_clean_html
embedded_media_tags == <<"img", "video", "audio">>


\* str.lower() on the letters; re.IGNORECASE compares letters this way
Lower(c) ==
    CASE c = "A" -> "a"
      [] c = "B" -> "b"
      [] c = "C" -> "c"
      [] c = "D" -> "d"
      [] c = "E" -> "e"
      [] c = "F" -> "f"
      [] c = "G" -> "g"
      [] c = "H" -> "h"
      [] c = "I" -> "i"
      [] c = "J" -> "j"
      [] c = "K" -> "k"
      [] c = "L" -> "l"
      [] c = "M" -> "m"
      [] c = "N" -> "n"
      [] c = "O" -> "o"
      [] c = "P" -> "p"
      [] c = "Q" -> "q"
      [] c = "R" -> "r"
      [] c = "S" -> "s"
      [] c = "T" -> "t"
      [] c = "U" -> "u"
      [] c = "V" -> "v"
      [] c = "W" -> "w"
      [] c = "X" -> "x"
      [] c = "Y" -> "y"
      [] c = "Z" -> "z"
      [] OTHER -> c


(***************************************************************************)
(* Parsed documents (BeautifulSoup trees).                                 *)
(*                                                                         *)
(* A document is the sequence of its nodes in document order; node n has   *)
(* a parent (a smaller index, or Soup) and an element description el.  The *)
(* tree never changes shape: decompose() and extract() take a node and its *)
(* subtree out of the set of nodes still in the tree.  A decomposed tag    *)
(* that a loop still holds has no name, no attributes, no parent and no    *)
(* contents: every search from it finds nothing.                           *)
(***************************************************************************)
Range(seq) == {seq[k] : k \in 1..Len(seq)}

Min(S) == CHOOSE x \in S : \A y \in S : x <= y

\* the first node of a set in document order, None for the empty set
First(S) == IF S = {} THEN None ELSE Min(S)

RECURSIVE SortedSeq(_)
\* the nodes of a set as the list find_all() returns: in document order
SortedSeq(S) == IF S = {} THEN <<>> ELSE <<Min(S)>> \o SortedSeq(S \ {Min(S)})

Element(name, class, id, role) ==
    [kind |-> "tag", name |-> name, class |-> class, id |-> id, role |-> role,
     size |-> <<>>, text |-> <<>>]

SizedElement(name, width, height) ==
    [kind |-> "tag", name |-> name, class |-> <<>>, id |-> <<>>, role |-> "",
     size |-> <<width, height>>, text |-> <<>>]

TextNode(text) ==
    [kind |-> "text", name |-> "", class |-> <<>>, id |-> <<>>, role |-> "",
     size |-> <<>>, text |-> text]

CommentNode(text) ==
    [kind |-> "comment", name |-> "", class |-> <<>>, id |-> <<>>, role |-> "",
     size |-> <<>>, text |-> text]

Node(parent, el) == [parent |-> parent, el |-> el]

IsTag(d, n) == n \in 1..Len(d) /\ d[n].el.kind = "tag"

RECURSIVE Ancestors(_, _)
\* the parents of node n up to and including Soup
Ancestors(d, n) ==
    IF n = Soup THEN {} ELSE {d[n].parent} \cup Ancestors(d, d[n].parent)

\* node a with everything below it
Subtree(d, a) == {n \in 1..Len(d) : n = a \/ a \in Ancestors(d, n)}

Descendants(d, a) == Subtree(d, a) \ {a}

\* element.decompose(): the element and its subtree leave the tree
\* (on an element already decomposed this changes nothing)
Decompose(d, al, n) == al \ Subtree(d, n)

\* for element in found: element.decompose(), for a list found made before the loop
\* by a test that reads the element alone: the elements go with their subtrees,
\* and decomposing one that already went with an ancestor changes nothing
DecomposeEach(d, al, found) == al \ UNION {Subtree(d, n) : n \in found}

\* the tags below area that are in the tree: what area.find_all() walks
\* (nothing when area itself was decomposed)
TagsIn(d, al, area) ==
    IF area # Soup /\ area \notin al THEN {}
    ELSE {n \in Descendants(d, area) \cap al : IsTag(d, n)}

\* area.find_all(name) as a set
TagsNamed(d, al, area, names) == {n \in TagsIn(d, al, area) : d[n].el.name \in names}

(***************************************************************************)
(* Strings of attributes and text.                                         *)
(***************************************************************************)
TextWhitespace == {" ", "\t", "\n"}

RECURSIVE LStrip(_)
LStrip(s) == IF s # <<>> /\ Head(s) \in TextWhitespace THEN LStrip(Tail(s)) ELSE s

RECURSIVE RStrip(_)
RStrip(s) ==
    IF s # <<>> /\ s[Len(s)] \in TextWhitespace THEN RStrip(SubSeq(s, 1, Len(s) - 1)) ELSE s

\* str.strip()
Strip(s) == RStrip(LStrip(s))

LowerStr(s) == [k \in 1..Len(s) |-> Lower(s[k])]

\* lit occurs in s at position i
OccursAt(s, lit, i) == i + Len(lit) - 1 <= Len(s) /\ SubSeq(s, i, i + Len(lit) - 1) = lit

\* lit in s (Python's substring test)
Contains(s, lit) == \E i \in 1..(Len(s) + 1) : OccursAt(s, lit, i)

RECURSIVE MatchParts(_, _, _)
\* the parts of a pattern occur in s in order, from position from on
\* ('.' matches any character of a class or id string: they hold no line break)
MatchParts(s, parts, from) ==
    \/ parts = <<>>
    \/ \E lit \in Head(parts) : \E i \in from..(Len(s) + 1) :
           OccursAt(s, lit, i) /\ MatchParts(s, Tail(parts), i + Len(lit))

\* re.compile(pattern, re.IGNORECASE).search(s)
PatternSearch(pattern, s) == MatchParts(LowerStr(s), pattern, 1)

\* any(pattern.search(s) for pattern in compiled_patterns)
AnyPatternSearch(patterns, s) == \E k \in 1..Len(patterns) : PatternSearch(patterns[k], s)

\* ' '.join(element.get('class', []))
ClassString(el) == JoinWith(<<" ">>, el.class)

\* one simple CSS selector against one element (soupsieve: tag, [role="v"],
\* .token, #id, [class*="v"])
MatchesSelector(el, sel) ==
    CASE sel.by = "tag" -> el.name = sel.value
      [] sel.by = "role" -> el.role = sel.value
      [] sel.by = "class" -> \E k \in 1..Len(el.class) : el.class[k] = sel.value
      [] sel.by = "id" -> el.id = sel.value
      [] sel.by = "class*" -> el.class # <<>> /\ Contains(ClassString(el), sel.value)

\* area.select(selector) as a set
Select(d, al, area, sel) == {n \in TagsIn(d, al, area) : MatchesSelector(d[n].el, sel)}

RECURSIVE FirstSelected(_, _, _, _)
\* for selector in selectors: element = area.select_one(selector); if element: return element
FirstSelected(d, al, area, sels) ==
    IF sels = <<>> THEN None
    ELSE IF Select(d, al, area, Head(sels)) # {} THEN Min(Select(d, al, area, Head(sels)))
    ELSE FirstSelected(d, al, area, Tail(sels))

(***************************************************************************)
(* WebClient._remove_non_main_content and its helpers (web_client.py)      *)
(***************************************************************************)
\* for selector in sels: for element in soup.select(selector): element.decompose()
\* (selector after selector this takes out every element that matches one of them:
\* a selector reads the element alone, and a later select() finds only what is left)
RemoveSelected(d, al, sels) ==
    DecomposeEach(d, al, {n \in TagsIn(d, al, Soup) :
        \E k \in 1..Len(sels) : MatchesSelector(d[n].el, sels[k])})

\* the first pass of _remove_non_main_content
RemoveStructuralSelectors(d, al) == RemoveSelected(d, al, structural_selectors)

\* a mutant of FindMainContentArea: <article> is tried before <main>
FindMainContentAreaArticleFirst(d, al) ==
    LET main == First(TagsNamed(d, al, Soup, {"main"}))
        article == First(TagsNamed(d, al, Soup, {"article"}))
        main_role == First({n \in TagsIn(d, al, Soup) : d[n].el.role = "main"})
        selected == FirstSelected(d, al, Soup, main_selectors)
        body == First(TagsNamed(d, al, Soup, {"body"}))
    IN  IF article # None THEN article
        ELSE IF main # None THEN main
        ELSE IF main_role # None THEN main_role
        ELSE IF selected # None THEN selected
        ELSE IF body # None THEN body
        ELSE Soup

\* _find_main_content_area(soup): never None
FindMainContentArea(d, al) ==
    LET main == First(TagsNamed(d, al, Soup, {"main"}))
        article == First(TagsNamed(d, al, Soup, {"article"}))
        main_role == First({n \in TagsIn(d, al, Soup) : d[n].el.role = "main"})
        selected == FirstSelected(d, al, Soup, main_selectors)
        body == First(TagsNamed(d, al, Soup, {"body"}))
    IN  IF main # None THEN main
        ELSE IF article # None THEN article
        ELSE IF main_role # None THEN main_role
        ELSE IF selected # None THEN selected
        ELSE IF body # None THEN body
        ELSE Soup

RECURSIVE FirstHeading(_, _, _, _)
\* for level in ['h2', 'h3', 'h4']: heading = content_area.find(level); if heading: return heading
FirstHeading(d, al, content_area, levels) ==
    IF levels = <<>> THEN None
    ELSE IF TagsNamed(d, al, content_area, {Head(levels)}) # {}
         THEN Min(TagsNamed(d, al, content_area, {Head(levels)}))
    ELSE FirstHeading(d, al, content_area, Tail(levels))

\* a mutant of FindArticleTitle: the first heading of any level, in document order
FindArticleTitleAnyHeading(d, al, content_area) ==
    LET heading == First(TagsNamed(d, al, content_area, {"h1", "h2", "h3", "h4"}))
    IN  IF heading # None THEN heading
        ELSE FirstSelected(d, al, content_area, title_selectors)

\* _find_article_title(content_area): the title element or None
FindArticleTitle(d, al, content_area) ==
    LET h1 == First(TagsNamed(d, al, content_area, {"h1"}))
        heading == FirstHeading(d, al, content_area, <<"h2", "h3", "h4">>)
    IN  IF h1 # None THEN h1
        ELSE IF heading # None THEN heading
        ELSE FirstSelected(d, al, content_area, title_selectors)

\* current.find_next_sibling(): the next tag with the same parent
FindNextSibling(d, al, current) ==
    IF current \notin al THEN None
    ELSE First({m \in al : IsTag(d, m) /\ m > current /\ d[m].parent = d[current].parent})

\* current.find_next(): the next tag in document order, children included
FindNext(d, al, current) ==
    IF current \notin al THEN None
    ELSE First({m \in al : IsTag(d, m) /\ m > current})

\* a mutant of ContainsTitle: the break on a wrapper of the title is left out
ContainsTitleNever(d, al, current, title) == FALSE

\* title_element in current.find_all()
\* (== on tags compares name, attributes and contents; no tag before the title
\* can equal it, since the title is the first match of its own search)
ContainsTitle(d, al, current, title) == title \in TagsIn(d, al, current)

RECURSIVE BeforeTitleLoop(_, _, _, _)
\* while current and current != title_element: ... current = next_element
BeforeTitleLoop(d, al, title, current) ==
    IF current = None \/ current = title THEN al
    ELSE LET sibling == FindNextSibling(d, al, current)
             next_element == IF sibling # None THEN sibling ELSE FindNext(d, al, current)
         IN  IF ContainsTitle(d, al, current, title) THEN al
             ELSE BeforeTitleLoop(d, Decompose(d, al, current), title, next_element)

\* _remove_elements_before_title(content_area, title_element)
RemoveElementsBeforeTitle(d, al, content_area, title) ==
    BeforeTitleLoop(d, al, title, First(TagsIn(d, al, content_area)))

\* a mutant of MatchesNonContentPattern: the share and social patterns are missing
MatchesNonContentPatternNoShare(s) ==
    \E k \in 1..Len(non_content_patterns) :
        /\ non_content_patterns[k] \notin {<<{<<"s", "h", "a", "r", "e">>}>>,
                                          <<{<<"s", "o", "c", "i", "a", "l">>}>>}
        /\ PatternSearch(non_content_patterns[k], s)

\* any(pattern.search(s) for pattern in compiled_patterns) in _remove_non_main_content
MatchesNonContentPattern(s) == AnyPatternSearch(non_content_patterns, s)

\* a mutant of RemoveNonContentPatterns: body and main are exempt from the patterns
RemoveNonContentPatternsExemptingRoot(d, al) ==
    LET by_class ==
            DecomposeEach(d, al, {n \in TagsIn(d, al, Soup) :
                /\ d[n].el.class # <<>>
                /\ d[n].el.name \notin {"body", "main"}
                /\ MatchesNonContentPattern(ClassString(d[n].el))})
    IN  DecomposeEach(d, by_class, {n \in TagsIn(d, by_class, Soup) :
            /\ d[n].el.id # <<>>
            /\ d[n].el.name \notin {"body", "main"}
            /\ MatchesNonContentPattern(d[n].el.id)})

\* the last two loops of _remove_non_main_content: by class, then by id, each over
\* a list made before the loop; an element decomposed meanwhile has no parent
RemoveNonContentPatterns(d, al) ==
    LET elements_with_class ==
            {n \in TagsIn(d, al, Soup) : d[n].el.class # <<>>}
        by_class ==
            DecomposeEach(d, al, {n \in elements_with_class :
                MatchesNonContentPattern(ClassString(d[n].el))})
        elements_with_id ==
            {n \in TagsIn(d, by_class, Soup) : d[n].el.id # <<>>}
    IN  DecomposeEach(d, by_class, {n \in elements_with_id :
            MatchesNonContentPattern(d[n].el.id)})

(***************************************************************************)
(* WebClient._aggressive_clean_html (web_client.py), pass by pass          *)
(***************************************************************************)
\* a mutant of ScriptStyleTags: noscript is forgotten
ScriptStyleTagsNoNoscript == {"script", "style"}

\* soup(["script", "style", "noscript"])
ScriptStyleTags == {"script", "style", "noscript"}

RemoveScriptsAndStyles(d, al) ==
    DecomposeEach(d, al, TagsNamed(d, al, Soup, ScriptStyleTags))

\* for tag in tags: for element in soup.find_all(tag): element.decompose()
RemoveTagsInTurn(d, al, tags) == DecomposeEach(d, al, TagsNamed(d, al, Soup, Range(tags)))

\* a mutant of MatchesAdPattern: the social-media patterns are missing
MatchesAdPatternNoSocial(s) ==
    \E k \in 1..Len(ad_patterns) :
        /\ ad_patterns[k] \notin {<<{<<"s", "h", "a", "r", "e">>}>>,
                                 <<{<<"s", "o", "c", "i", "a", "l">>}>>}
        /\ PatternSearch(ad_patterns[k], s)

\* any(pattern.search(s) for pattern in compiled_patterns) in _aggressive_clean_html
MatchesAdPattern(s) == AnyPatternSearch(ad_patterns, s)

\* the two pattern loops of _aggressive_clean_html; an element decomposed meanwhile
\* raises AttributeError on .get(), which the loop catches
RemoveAdPatterns(d, al) ==
    LET by_class ==
            DecomposeEach(d, al, {n \in TagsIn(d, al, Soup) :
                d[n].el.class # <<>> /\ MatchesAdPattern(ClassString(d[n].el))})
    IN  DecomposeEach(d, by_class, {n \in TagsIn(d, by_class, Soup) :
            d[n].el.id # <<>> /\ MatchesAdPattern(d[n].el.id)})

\* for role in unwanted_roles: for element in soup.find_all(attrs={"role": role}): decompose
RemoveRolesInTurn(d, al, roles) ==
    DecomposeEach(d, al, {n \in TagsIn(d, al, Soup) : d[n].el.role \in Range(roles)})

\* ad_sizes of _aggressive_clean_html
ad_sizes == {<<728, 90>>, <<300, 250>>, <<336, 280>>, <<320, 50>>, <<468, 60>>,
             <<970, 250>>, <<300, 600>>, <<320, 100>>, <<970, 90>>, <<160, 600>>}

\* the loop over the elements that carry width and height
RemoveAdSizes(d, al) ==
    DecomposeEach(d, al, {n \in TagsIn(d, al, Soup) :
        d[n].el.size # <<>> /\ d[n].el.size \in ad_sizes})

\* comment.extract() for every comment of the tree
RemoveComments(d, al) == al \ {n \in al : d[n].el.kind = "comment"}

RECURSIVE StrippedStrings(_, _)
\* the stripped, non-empty strings of a list of text nodes, concatenated
StrippedStrings(d, nodes) ==
    IF nodes = <<>> THEN <<>>
    ELSE Strip(d[Head(nodes)].el.text) \o StrippedStrings(d, Tail(nodes))

\* the text nodes get_text() reads below n (comments are not read)
TextNodesIn(d, al, n) ==
    IF n # Soup /\ n \notin al THEN {}
    ELSE {m \in Descendants(d, n) \cap al : d[m].el.kind = "text"}

\* element.get_text(strip=True)
GetTextStripped(d, al, n) == StrippedStrings(d, SortedSeq(TextNodesIn(d, al, n)))

\* the test of the short-text pass on an element of the list
IsShortDecoration(d, al, n) ==
    /\ n \in al
    /\ d[n].el.name \in Range(short_text_tags)
    /\ Len(GetTextStripped(d, al, n)) < 3
    /\ TagsNamed(d, al, n, Range(meaningful_tags)) = {}

RECURSIVE ShortTextLoop(_, _, _)
\* for element in soup.find_all(): the list is made once, the test reads the tree as it is
ShortTextLoop(d, al, found) ==
    IF found = <<>> THEN al
    ELSE ShortTextLoop(d, IF IsShortDecoration(d, al, Head(found))
                          THEN Decompose(d, al, Head(found)) ELSE al, Tail(found))

RemoveShortText(d, al) == ShortTextLoop(d, al, SortedSeq(TagsIn(d, al, Soup)))

\* the test of the last pass on an element of the list
IsEmptyElement(d, al, n) ==
    /\ GetTextStripped(d, al, n) = <<>>
    /\ TagsNamed(d, al, n, Range(embedded_media_tags)) = {}

RECURSIVE EmptyLoop(_, _, _)
EmptyLoop(d, al, found) ==
    IF found = <<>> THEN al
    ELSE EmptyLoop(d, IF IsEmptyElement(d, al, Head(found))
                      THEN Decompose(d, al, Head(found)) ELSE al, Tail(found))

RemoveEmptyElements(d, al) == EmptyLoop(d, al, SortedSeq(TagsIn(d, al, Soup)))

\* _aggressive_clean_html(soup): the passes in the order of the code
AggressiveCleanHtml(d, al) ==
    LET p1 == RemoveScriptsAndStyles(d, al)
        p2 == RemoveTagsInTurn(d, p1, structural_tags)
        p3 == RemoveAdPatterns(d, p2)
        p4 == RemoveRolesInTurn(d, p3, unwanted_roles)
        p5 == RemoveTagsInTurn(d, p4, form_elements)
        p6 == RemoveTagsInTurn(d, p5, media_elements)
        p7 == RemoveAdSizes(d, p6)
        p8 == RemoveComments(d, p7)
        p9 == RemoveShortText(d, p8)
    IN  RemoveEmptyElements(d, p9)

\* a mutant of BasicCleanTags: style is forgotten
BasicCleanTagsNoStyle == {"script"}

\* soup(["script", "style"]) of get_webpage_text
BasicCleanTags == {"script", "style"}

\* the else branch of get_webpage_text: "just remove script and style tags"
BasicClean(d, al) == DecomposeEach(d, al, TagsNamed(d, al, Soup, BasicCleanTags))

\* pass number k of _aggressive_clean_html, in the order of the code
CleanPass(k, d, al) ==
    CASE k = 1 -> RemoveScriptsAndStyles(d, al)
      [] k = 2 -> RemoveTagsInTurn(d, al, structural_tags)
      [] k = 3 -> RemoveAdPatterns(d, al)
      [] k = 4 -> RemoveRolesInTurn(d, al, unwanted_roles)
      [] k = 5 -> RemoveTagsInTurn(d, al, form_elements)
      [] k = 6 -> RemoveTagsInTurn(d, al, media_elements)
      [] k = 7 -> RemoveAdSizes(d, al)
      [] k = 8 -> RemoveComments(d, al)
      [] k = 9 -> RemoveShortText(d, al)
      [] k = 10 -> RemoveEmptyElements(d, al)

\* the number of passes of _aggressive_clean_html
LastCleanPass == 10

(***************************************************************************)
(* Text extraction of get_webpage_text (web_client.py)                     *)
(***************************************************************************)
RECURSIVE ConcatTexts(_, _)
ConcatTexts(d, nodes) ==
    IF nodes = <<>> THEN <<>> ELSE d[Head(nodes)].el.text \o ConcatTexts(d, Tail(nodes))

\* soup.get_text(): the strings of the tree in document order, comments left out
GetText(d, al) == ConcatTexts(d, SortedSeq(TextNodesIn(d, al, Soup)))

RECURSIVE SplitOnLoop(_, _, _, _)
\* the scan of s.split(sep) for a non-empty separator: empty pieces are kept
SplitOnLoop(s, sep, cur, acc) ==
    IF s = <<>> THEN Append(acc, cur)
    ELSE IF OccursAt(s, sep, 1)
         THEN SplitOnLoop(SubSeq(s, Len(sep) + 1, Len(s)), sep, <<>>, Append(acc, cur))
         ELSE SplitOnLoop(Tail(s), sep, Append(cur, Head(s)), acc)

\* s.split(sep)
SplitOn(s, sep) == SplitOnLoop(s, sep, <<>>, <<>>)

\* text.splitlines(), for the line break "\n": no empty last line
SplitLines(s) ==
    LET pieces == SplitOn(s, <<"\n">>)
    IN  IF pieces[Len(pieces)] = <<>> THEN SubSeq(pieces, 1, Len(pieces) - 1) ELSE pieces

RECURSIVE StripEach(_)
StripEach(strs) == IF strs = <<>> THEN <<>> ELSE <<Strip(Head(strs))>> \o StripEach(Tail(strs))

RECURSIVE Phrases(_)
\* (phrase.strip() for line in lines for phrase in line.split("  "))
Phrases(lines) ==
    IF lines = <<>> THEN <<>>
    ELSE StripEach(SplitOn(Head(lines), <<" ", " ">>)) \o Phrases(Tail(lines))

\* the whitespace clean-up of get_webpage_text
CleanUpWhitespace(text) ==
    LET lines == StripEach(SplitLines(text))
    IN  JoinWith(<<" ">>, SelectSeq(Phrases(lines), IsNonEmptyText))

ChunkIdle ==
    /\ content = <<>>
    /\ max_message_size = 1
    /\ chunk_pc = "idle"
    /\ chunk_result = NoResult

(***************************************************************************)
(* The documents the cleaning is run on.                                   *)
(***************************************************************************)
NoClass == <<>>

NoId == <<>>

social_share == <<"s", "o", "c", "i", "a", "l", "-", "s", "h", "a", "r", "e">>

hello == <<"h", "e", "l", "l", "o">>

\* the elements of the documents of SpecClean
CleanElements == {
    Element("nav", NoClass, NoId, ""),
    Element("div", <<social_share>>, NoId, ""),
    Element("script", NoClass, NoId, ""),
    Element("style", NoClass, NoId, ""),
    Element("noscript", NoClass, NoId, ""),
    Element("h1", NoClass, NoId, ""),
    TextNode(hello)
}

\* the elements of the documents of SpecTitle
TitleElements == {
    Element("main", NoClass, NoId, ""),
    Element("div", NoClass, NoId, ""),
    Element("p", NoClass, NoId, ""),
    Element("h1", NoClass, NoId, ""),
    Element("h2", NoClass, NoId, ""),
    TextNode(hello)
}

\* html.parser: the content of script and style is one string, never a tag
RawTextTags == {"script", "style"}

\* whether the parser can put el directly under node p of document d
CanContain(d, p, el) ==
    \/ p = Soup
    \/ /\ d[p].el.kind = "tag"
       /\ d[p].el.name \in RawTextTags => el.kind = "text"

\* where the parser can attach the next node: under the last node or one of its ancestors
AttachPoints(d) == IF d = <<>> THEN {Soup} ELSE {Len(d)} \cup Ancestors(d, Len(d))

RECURSIVE DocsOfLen(_, _)
\* every document of k nodes over the given elements, in document order
DocsOfLen(k, elements) ==
    IF k = 0 THEN {<<>>}
    ELSE UNION {{Append(d, Node(pe[1], pe[2])) :
                    pe \in {x \in AttachPoints(d) \X elements : CanContain(d, x[1], x[2])}} :
                d \in DocsOfLen(k - 1, elements)}

Docs(elements) == UNION {DocsOfLen(k, elements) : k \in 1..MaxNodes}

(***************************************************************************)
(* get_webpage_text and get_webpage_file on a parsed page, step by step.   *)
(***************************************************************************)
InitHtml(elements) ==
    /\ doc \in Docs(elements)
    /\ alive = 1..Len(doc)
    /\ html_pc = "parsed"
    /\ method \in {"text", "file"}
    /\ aggressive \in BOOLEAN
    /\ main_content = None
    /\ title_element = None
    /\ clean_pass = 0
    /\ output = NoOutput
    /\ ChunkIdle
    /\ FetchIdle
    /\ AppIdle

\* whether the call cleans the tree at all: get_webpage_text always does,
\* get_webpage_file only with aggressive_html_cleaning
CleansTree == method = "text" \/ aggressive

\* _remove_non_main_content, first loop
RemoveStructural ==
    /\ html_pc = "parsed"
    /\ CleansTree
    /\ alive' = RemoveStructuralSelectors(doc, alive)
    /\ html_pc' = "structural_removed"
    /\ UNCHANGED <<doc, method, aggressive, main_content, title_element, clean_pass, output>>
    /\ UNCHANGED chunk_vars
    /\ UNCHANGED app_vars
    /\ UNCHANGED fetch_vars

\* _remove_non_main_content: main content area, title, truncation before the title
LocateAndTruncate ==
    /\ html_pc = "structural_removed"
    /\ LET area == FindMainContentArea(doc, alive)
           title == FindArticleTitle(doc, alive, area)
       IN  /\ main_content' = area
           /\ title_element' = title
           /\ alive' = IF title # None
                       THEN RemoveElementsBeforeTitle(doc, alive, area, title)
                       ELSE alive
    /\ html_pc' = "truncated"
    /\ UNCHANGED <<doc, method, aggressive, clean_pass, output>>
    /\ UNCHANGED chunk_vars
    /\ UNCHANGED app_vars
    /\ UNCHANGED fetch_vars

\* _remove_non_main_content, the pattern loops
RemovePatterns ==
    /\ html_pc = "truncated"
    /\ alive' = RemoveNonContentPatterns(doc, alive)
    /\ html_pc' = "non_main_removed"
    /\ UNCHANGED <<doc, method, aggressive, main_content, title_element, clean_pass, output>>
    /\ UNCHANGED chunk_vars
    /\ UNCHANGED app_vars
    /\ UNCHANGED fetch_vars

\* _aggressive_clean_html, one pass after the other
AggressiveCleanPass ==
    /\ html_pc = "non_main_removed"
    /\ aggressive
    /\ clean_pass < LastCleanPass
    /\ alive' = CleanPass(clean_pass + 1, doc, alive)
    /\ clean_pass' = clean_pass + 1
    /\ html_pc' = IF clean_pass + 1 = LastCleanPass THEN "cleaned" ELSE html_pc
    /\ UNCHANGED <<doc, method, aggressive, main_content, title_element, output>>
    /\ UNCHANGED chunk_vars
    /\ UNCHANGED app_vars
    /\ UNCHANGED fetch_vars

\* get_webpage_text without aggressive cleaning: script and style only
BasicCleanStep ==
    /\ html_pc = "non_main_removed"
    /\ ~aggressive
    /\ method = "text"
    /\ alive' = BasicClean(doc, alive)
    /\ html_pc' = "cleaned"
    /\ UNCHANGED <<doc, method, aggressive, main_content, title_element, clean_pass, output>>
    /\ UNCHANGED chunk_vars
    /\ UNCHANGED app_vars
    /\ UNCHANGED fetch_vars

\* get_webpage_text: text = soup.get_text(), whitespace clean-up, return (response, text)
ExtractText ==
    /\ html_pc = "cleaned"
    /\ method = "text"
    /\ output' = [nodes |-> alive, text |-> CleanUpWhitespace(GetText(doc, alive))]
    /\ html_pc' = "done"
    /\ UNCHANGED <<doc, alive, method, aggressive, main_content, title_element, clean_pass>>
    /\ UNCHANGED chunk_vars
    /\ UNCHANGED app_vars
    /\ UNCHANGED fetch_vars

\* get_webpage_file: html_content is str(soup) after cleaning, or response.text as it came
SaveHtml ==
    /\ method = "file"
    /\ \/ html_pc = "cleaned"
       \/ html_pc = "parsed" /\ ~aggressive
    /\ output' = [nodes |-> alive, text |-> <<>>]
    /\ html_pc' = "done"
    /\ UNCHANGED <<doc, alive, method, aggressive, main_content, title_element, clean_pass>>
    /\ UNCHANGED chunk_vars
    /\ UNCHANGED app_vars
    /\ UNCHANGED fetch_vars

NextHtml ==
    \/ RemoveStructural
    \/ LocateAndTruncate
    \/ RemovePatterns
    \/ AggressiveCleanPass
    \/ BasicCleanStep
    \/ ExtractText
    \/ SaveHtml

InitClean == InitHtml(CleanElements)

SpecClean == InitClean /\ [][NextHtml]_vars

InitTitle == InitHtml(TitleElements)

SpecTitle == InitTitle /\ [][NextHtml]_vars

(***************************************************************************)
(* Claims about the HTML cleaning.                                         *)
(***************************************************************************)
Done == html_pc = "done"

IsNav(n) == IsTag(doc, n) /\ doc[n].el.name = "nav"

IsSocialShare(n) ==
    IsTag(doc, n) /\ doc[n].el.name = "div" /\ social_share \in Range(doc[n].el.class)

\* node n and everything below it are gone from what the call returns
GoneFromOutput(n) == Subtree(doc, n) \cap output.nodes = {}

LeftBeforeTitle ==
    {n \in alive \cap Descendants(doc, main_content) :
        IsTag(doc, n) /\ n < title_element /\ title_element \notin Subtree(doc, n)}

\* C10 (as claimed): when a title was found, after _remove_elements_before_title no
\* element is left in the content root that comes strictly before the title and does
\* not contain it, at any depth.
C10_NothingLeftBeforeTitle ==
    (html_pc = "truncated" /\ title_element # None) => LeftBeforeTitle = {}

\* the nodes truncation has to keep for title t: the title, what is below it,
\* what is above it, and what comes after it in document order
KeptByTruncation(t) ==
    {n \in 1..Len(doc) : n \in Subtree(doc, t) \/ n \in Ancestors(doc, t) \/ n > t}

\* C11: the step that locates the title and truncates removes neither the title, nor
\* a descendant or an ancestor of it, nor a node after it in document order; and when
\* it finds no title it removes nothing.
C11_TruncationKeepsTitleAndRest ==
    [][(html_pc = "structural_removed" /\ html_pc' = "truncated") =>
          /\ title_element' # None => (alive \cap KeptByTruncation(title_element')) \subseteq alive'
          /\ title_element' = None => alive' = alive]_vars

\* C11 witness: truncation found a title, removed an element before it, and the
\* title is still there together with a node above or after it
C11_Witness ==
    /\ html_pc = "truncated"
    /\ title_element # None
    /\ title_element \in alive
    /\ \E n \in 1..Len(doc) : n < title_element /\ n \notin alive
    /\ \E m \in alive : m > title_element \/ m \in Ancestors(doc, title_element)

(***************************************************************************)
(* The two locators on their own: _find_main_content_area on a parsed      *)
(* page, then _find_article_title on the content root it returned.         *)
(***************************************************************************)
main_id == <<"m", "a", "i", "n">>

content_word == <<"c", "o", "n", "t", "e", "n", "t">>

story == <<"s", "t", "o", "r", "y">>

title_word == <<"t", "i", "t", "l", "e">>

headline == <<"h", "e", "a", "d", "l", "i", "n", "e">>

subtitle == <<"s", "u", "b", "t", "i", "t", "l", "e">>

\* the elements of the pages the content root is searched in
ContentRootElements == {
    Element("main", NoClass, NoId, ""),
    Element("article", NoClass, NoId, ""),
    Element("div", NoClass, NoId, "main"),
    Element("div", NoClass, main_id, ""),
    Element("div", NoClass, content_word, ""),
    Element("div", <<content_word>>, NoId, ""),
    Element("div", <<story>>, NoId, ""),
    Element("body", NoClass, NoId, ""),
    Element("div", NoClass, NoId, "")
}

\* the elements of the pages the title is searched in
HeadingElements == {
    Element("main", NoClass, NoId, ""),
    Element("div", NoClass, NoId, ""),
    Element("h1", NoClass, NoId, ""),
    Element("h2", NoClass, NoId, ""),
    Element("h3", NoClass, NoId, ""),
    Element("h4", NoClass, NoId, ""),
    Element("div", <<title_word>>, NoId, ""),
    Element("div", <<headline>>, NoId, ""),
    Element("div", <<subtitle>>, NoId, "")
}

InitLocate ==
    /\ doc \in Docs(ContentRootElements) \cup Docs(HeadingElements)
    /\ alive = 1..Len(doc)
    /\ html_pc = "parsed"
    /\ method = "text"
    /\ aggressive = FALSE
    /\ main_content = None
    /\ title_element = None
    /\ clean_pass = 0
    /\ output = NoOutput
    /\ ChunkIdle
    /\ FetchIdle
    /\ AppIdle

\* main_content = self._find_main_content_area(soup)
FindMainContentAreaCall ==
    /\ html_pc = "parsed"
    /\ main_content' = FindMainContentArea(doc, alive)
    /\ html_pc' = "located"
    /\ UNCHANGED <<doc, alive, method, aggressive, title_element, clean_pass, output>>
    /\ UNCHANGED chunk_vars
    /\ UNCHANGED app_vars
    /\ UNCHANGED fetch_vars

\* title_element = self._find_article_title(main_content)
FindArticleTitleCall ==
    /\ html_pc = "located"
    /\ title_element' = FindArticleTitle(doc, alive, main_content)
    /\ html_pc' = "titled"
    /\ UNCHANGED <<doc, alive, method, aggressive, main_content, clean_pass, output>>
    /\ UNCHANGED chunk_vars
    /\ UNCHANGED app_vars
    /\ UNCHANGED fetch_vars

NextLocate ==
    \/ FindMainContentAreaCall
    \/ FindArticleTitleCall

SpecLocate == InitLocate /\ [][NextLocate]_vars

(***************************************************************************)
(* Claims about the locators.                                              *)
(***************************************************************************)
\* the elements of the page, in document order
PageTags == {n \in 1..Len(doc) : IsTag(doc, n)}

\* the container selectors in the order the claim lists them
ClaimedRootSelectors == <<
    <<"#", <<"m", "a", "i", "n">>>>,
    <<"#", <<"c", "o", "n", "t", "e", "n", "t">>>>,
    <<"#", <<"m", "a", "i", "n", "-", "c", "o", "n", "t", "e", "n", "t">>>>,
    <<"#", <<"p", "r", "i", "m", "a", "r", "y">>>>,
    <<"#", <<"a", "r", "t", "i", "c", "l", "e">>>>,
    <<".", <<"m", "a", "i", "n">>>>,
    <<".", <<"c", "o", "n", "t", "e", "n", "t">>>>,
    <<".", <<"m", "a", "i", "n", "-", "c", "o", "n", "t", "e", "n", "t">>>>,
    <<".", <<"p", "r", "i", "m", "a", "r", "y">>>>,
    <<".", <<"a", "r", "t", "i", "c", "l", "e">>>>,
    <<".", <<"p", "o", "s", "t">>>>,
    <<".", <<"e", "n", "t", "r", "y">>>>,
    <<".", <<"s", "t", "o", "r", "y">>>>
>>

\* the elements of the page that selector k of the claimed list matches
RootSelectorMatches(k) ==
    {n \in PageTags :
        IF ClaimedRootSelectors[k][1] = "#"
        THEN doc[n].el.id = ClaimedRootSelectors[k][2]
        ELSE ClaimedRootSelectors[k][2] \in Range(doc[n].el.class)}

\* the content root the claimed order gives
ClaimedContentRoot ==
    LET mains == {n \in PageTags : doc[n].el.name = "main"}
        articles == {n \in PageTags : doc[n].el.name = "article"}
        roles == {n \in PageTags : doc[n].el.role = "main"}
        matching == {k \in 1..Len(ClaimedRootSelectors) : RootSelectorMatches(k) # {}}
        bodies == {n \in PageTags : doc[n].el.name = "body"}
    IN  IF mains # {} THEN Min(mains)
        ELSE IF articles # {} THEN Min(articles)
        ELSE IF roles # {} THEN Min(roles)
        ELSE IF matching # {} THEN Min(RootSelectorMatches(Min(matching)))
        ELSE IF bodies # {} THEN Min(bodies)
        ELSE Soup

C12_FallbackWitness ==
    /\ html_pc = "located"
    /\ PageTags # {}
    /\ main_content = Soup

\* the elements of the content root, in document order
RootTags == {n \in PageTags : n \in Descendants(doc, main_content)}

\* the title-class names the claim lists
ClaimedTitleClasses == <<
    <<"t", "i", "t", "l", "e">>,
    <<"h", "e", "a", "d", "l", "i", "n", "e">>,
    <<"p", "o", "s", "t", "-", "t", "i", "t", "l", "e">>,
    <<"e", "n", "t", "r", "y", "-", "t", "i", "t", "l", "e">>,
    <<"a", "r", "t", "i", "c", "l", "e", "-", "t", "i", "t", "l", "e">>
>>

\* whether element n matches selector k of the claimed title-class list: one of the
\* five class names, then a class containing "title", then one containing "headline"
TitleSelectorMatches(k, n) ==
    IF k <= Len(ClaimedTitleClasses)
    THEN ClaimedTitleClasses[k] \in Range(doc[n].el.class)
    ELSE /\ doc[n].el.class # <<>>
         /\ Contains(ClassString(doc[n].el), IF k = 6 THEN title_word ELSE headline)

\* the first heading of the highest level present in the content root, None without one
ClaimedHeading ==
    LET level(h) == {n \in RootTags : doc[n].el.name = h}
    IN  IF level("h1") # {} THEN Min(level("h1"))
        ELSE IF level("h2") # {} THEN Min(level("h2"))
        ELSE IF level("h3") # {} THEN Min(level("h3"))
        ELSE IF level("h4") # {} THEN Min(level("h4"))
        ELSE None

\* C13 (as claimed): the title is the first <h1> of the content root, else the first
\* <h2>, <h3>, <h4>, else the first element of the content root that matches the
\* title-class selector list, else there is no title.
C13_TitleOrderAsClaimed ==
    html_pc = "titled" =>
        title_element =
            IF ClaimedHeading # None THEN ClaimedHeading
            ELSE First({n \in RootTags : \E k \in 1..7 : TitleSelectorMatches(k, n)})

\* C13 (amended): the title is the first <h1> of the content root, else the first
\* <h2>, <h3>, <h4>, else the first match of the first selector of the list (in list
\* order) that matches anything in the content root, else there is no title.
C13_TitleOrder ==
    html_pc = "titled" =>
        title_element =
            IF ClaimedHeading # None THEN ClaimedHeading
            ELSE LET matching == {k \in 1..7 : \E n \in RootTags : TitleSelectorMatches(k, n)}
                 IN  IF matching = {} THEN None
                     ELSE Min({n \in RootTags : TitleSelectorMatches(Min(matching), n)})

\* C13 witness: no heading in the content root, a .headline element before a .title
\* element, and the .title element is the title
C13_Witness ==
    /\ html_pc = "titled"
    /\ ClaimedHeading = None
    /\ \E n, m \in RootTags :
           /\ n < m
           /\ headline \in Range(doc[n].el.class)
           /\ title_word \in Range(doc[m].el.class)
           /\ title_element = m

\* C13 witness of the heading order: an <h2> before the <h1>, and the <h1> is the title
C13_HeadingWitness ==
    /\ html_pc = "titled"
    /\ \E n, m \in RootTags :
           /\ n < m
           /\ doc[n].el.name = "h2"
           /\ doc[m].el.name = "h1"
           /\ title_element = m

(***************************************************************************)
(* Strings of URLs, content types and file names.                          *)
(***************************************************************************)
AsciiLetters == {"a", "b", "c", "d", "e", "f", "g", "h", "i", "j", "k", "l", "m",
                 "n", "o", "p", "q", "r", "s", "t", "u", "v", "w", "x", "y", "z",
                 "A", "B", "C", "D", "E", "F", "G", "H", "I", "J", "K", "L", "M",
                 "N", "O", "P", "Q", "R", "S", "T", "U", "V", "W", "X", "Y", "Z"}

AsciiDigits == {"0", "1", "2", "3", "4", "5", "6", "7", "8", "9"}

\* s.endswith(suffix)
EndsWith(s, suffix) ==
    Len(suffix) <= Len(s) /\ SubSeq(s, Len(s) - Len(suffix) + 1, Len(s)) = suffix

RECURSIVE Replace(_, _, _)
\* s.replace(old, new) for a non-empty old: every occurrence, from the left
Replace(s, old, new) ==
    IF Len(s) < Len(old) THEN s
    ELSE IF SubSeq(s, 1, Len(old)) = old
         THEN new \o Replace(SubSeq(s, Len(old) + 1, Len(s)), old, new)
    ELSE <<Head(s)>> \o Replace(Tail(s), old, new)

\* the index of the first character of s that is in chars, Len(s) + 1 without one
FirstOf(s, chars) ==
    IF \E k \in 1..Len(s) : s[k] \in chars
    THEN Min({k \in 1..Len(s) : s[k] \in chars})
    ELSE Len(s) + 1

\* the index of the last character of s that is in chars, 0 without one
LastOf(s, chars) ==
    IF \E k \in 1..Len(s) : s[k] \in chars
    THEN CHOOSE k \in 1..Len(s) : s[k] \in chars /\ \A j \in (k + 1)..Len(s) : s[j] \notin chars
    ELSE 0

RECURSIVE StripChars(_, _)
\* s.strip(chars)
StripChars(s, chars) ==
    IF s = <<>> THEN s
    ELSE IF Head(s) \in chars THEN StripChars(Tail(s), chars)
    ELSE IF s[Len(s)] \in chars THEN StripChars(SubSeq(s, 1, Len(s) - 1), chars)
    ELSE s

\* s up to the first character that is in chars
Before(s, chars) == SubSeq(s, 1, FirstOf(s, chars) - 1)

\* s from the first character that is in chars on
From(s, chars) == SubSeq(s, FirstOf(s, chars), Len(s))

\* urlsplit: the colon at index colon ends a scheme when a letter and then letters,
\* digits, '+', '-' or '.' come before it; 0 without a scheme
SchemeEndAt(u, colon) ==
    IF /\ 1 < colon /\ colon <= Len(u)
       /\ u[1] \in AsciiLetters
       /\ \A k \in 1..(colon - 1) : u[k] \in AsciiLetters \cup AsciiDigits \cup {"+", "-", "."}
    THEN colon
    ELSE 0

\* the URL after its scheme
AfterScheme(u) == SubSeq(u, SchemeEndAt(u, FirstOf(u, {":"})) + 1, Len(u))

\* urlsplit: after '//' the netloc runs to the first '/', '?' or '#'
NetlocAndTail(rest) ==
    IF Len(rest) >= 2 /\ rest[1] = "/" /\ rest[2] = "/"
    THEN [netloc |-> Before(SubSeq(rest, 3, Len(rest)), {"/", "?", "#"}),
          tail |-> From(SubSeq(rest, 3, Len(rest)), {"/", "?", "#"})]
    ELSE [netloc |-> <<>>, tail |-> rest]

\* urlsplit: the fragment is cut off first, then the query
PathOf(tail) == Before(Before(tail, {"#"}), {"?"})

NetlocAndPath(split) == [netloc |-> split.netloc, path |-> PathOf(split.tail)]

\* urlparse(u): the netloc and the path (scheme, query and fragment are not used)
UrlParse(u) == NetlocAndPath(NetlocAndTail(AfterScheme(u)))

(***************************************************************************)
(* WebClient._get_filename_from_url (web_client.py)                        *)
(***************************************************************************)
StemLength == 16

\* s.replace(old, new) for a one-character old
ReplaceChar(s, old, new) == [k \in 1..Len(s) |-> IF s[k] = old THEN new ELSE s[k]]

\* the characters of the class [<>:"|?*]
invalid_characters == {"<", ">", ":", "\"", "|", "?", "*"}

\* re.sub(r'[<>:"|?*]', '_', s)
SubInvalid(s) == [k \in 1..Len(s) |-> IF s[k] \in invalid_characters THEN "_" ELSE s[k]]

\* a mutant of LastChars: the first n characters
FirstChars(s, n) == IF Len(s) <= n THEN s ELSE SubSeq(s, 1, n)

\* s[-n:]
LastChars(s, n) == IF Len(s) <= n THEN s ELSE SubSeq(s, Len(s) - n + 1, Len(s))

webpage == <<"w", "e", "b", "p", "a", "g", "e">>

\* if not filename: filename = "webpage"
OrWebpage(filename) == IF filename = <<>> THEN webpage ELSE filename

\* the filename made of the parsed URL, before its truncation
SafeName(parsed) ==
    OrWebpage(StripChars(SubInvalid(
        ReplaceChar(ReplaceChar(ReplaceChar(ReplaceChar(
            parsed.netloc \o parsed.path, "/", "_"), "\\", "_"), ".", "_"), "+", "_")),
        {".", " "}))

\* filename[-16:]
FilenameStem(u) == LastChars(SafeName(UrlParse(u)), StemLength)

\* _get_filename_from_url(url, extension)
GetFilenameFromUrl(u, extension) == FilenameStem(u) \o <<".">> \o extension

(***************************************************************************)
(* The classification of get_webpage_file (web_client.py)                  *)
(***************************************************************************)
\* the content types of the HTML branch of get_webpage_file
html_types == <<
    <<"t", "e", "x", "t", "/", "h", "t", "m", "l">>,
    <<"a", "p", "p", "l", "i", "c", "a", "t", "i", "o", "n", "/", "x", "h", "t", "m", "l">>
>>

\* the if/elif chain of get_webpage_file: the substrings tried, in order, and the
\* extension each gives
mime_table == <<
    [keys |-> <<<<"a", "p", "p", "l", "i", "c", "a", "t", "i", "o", "n", "/", "p", "d", "f">>>>,
     extension |-> <<"p", "d", "f">>],
    [keys |-> <<<<"i", "m", "a", "g", "e", "/", "j", "p", "e", "g">>,
               <<"i", "m", "a", "g", "e", "/", "j", "p", "g">>>>,
     extension |-> <<"j", "p", "g">>],
    [keys |-> <<<<"i", "m", "a", "g", "e", "/", "p", "n", "g">>>>,
     extension |-> <<"p", "n", "g">>],
    [keys |-> <<<<"i", "m", "a", "g", "e", "/", "g", "i", "f">>>>,
     extension |-> <<"g", "i", "f">>],
    [keys |-> <<<<"i", "m", "a", "g", "e", "/", "w", "e", "b", "p">>>>,
     extension |-> <<"w", "e", "b", "p">>],
    [keys |-> <<<<"i", "m", "a", "g", "e", "/", "s", "v", "g">>>>,
     extension |-> <<"s", "v", "g">>],
    [keys |-> <<<<"a", "p", "p", "l", "i", "c", "a", "t", "i", "o", "n", "/", "m", "s", "w", "o", "r", "d">>>>,
     extension |-> <<"d", "o", "c">>],
    [keys |-> <<<<"a", "p", "p", "l", "i", "c", "a", "t", "i", "o", "n", "/", "v", "n", "d", ".", "o", "p", "e", "n", "x", "m", "l", "f", "o", "r", "m", "a", "t", "s", "-", "o", "f", "f", "i", "c", "e", "d", "o", "c", "u", "m", "e", "n", "t", ".", "w", "o", "r", "d", "p", "r", "o", "c", "e", "s", "s", "i", "n", "g", "m", "l", ".", "d", "o", "c", "u", "m", "e", "n", "t">>>>,
     extension |-> <<"d", "o", "c", "x">>],
    [keys |-> <<<<"a", "p", "p", "l", "i", "c", "a", "t", "i", "o", "n", "/", "v", "n", "d", ".", "m", "s", "-", "e", "x", "c", "e", "l">>>>,
     extension |-> <<"x", "l", "s">>],
    [keys |-> <<<<"a", "p", "p", "l", "i", "c", "a", "t", "i", "o", "n", "/", "v", "n", "d", ".", "o", "p", "e", "n", "x", "m", "l", "f", "o", "r", "m", "a", "t", "s", "-", "o", "f", "f", "i", "c", "e", "d", "o", "c", "u", "m", "e", "n", "t", ".", "s", "p", "r", "e", "a", "d", "s", "h", "e", "e", "t", "m", "l", ".", "s", "h", "e", "e", "t">>>>,
     extension |-> <<"x", "l", "s", "x">>],
    [keys |-> <<<<"a", "p", "p", "l", "i", "c", "a", "t", "i", "o", "n", "/", "v", "n", "d", ".", "m", "s", "-", "p", "o", "w", "e", "r", "p", "o", "i", "n", "t">>>>,
     extension |-> <<"p", "p", "t">>],
    [keys |-> <<<<"a", "p", "p", "l", "i", "c", "a", "t", "i", "o", "n", "/", "v", "n", "d", ".", "o", "p", "e", "n", "x", "m", "l", "f", "o", "r", "m", "a", "t", "s", "-", "o", "f", "f", "i", "c", "e", "d", "o", "c", "u", "m", "e", "n", "t", ".", "p", "r", "e", "s", "e", "n", "t", "a", "t", "i", "o", "n", "m", "l", ".", "p", "r", "e", "s", "e", "n", "t", "a", "t", "i", "o", "n">>>>,
     extension |-> <<"p", "p", "t", "x">>],
    [keys |-> <<<<"t", "e", "x", "t", "/", "p", "l", "a", "i", "n">>>>,
     extension |-> <<"t", "x", "t">>],
    [keys |-> <<<<"t", "e", "x", "t", "/", "c", "s", "v">>>>,
     extension |-> <<"c", "s", "v">>],
    [keys |-> <<<<"a", "p", "p", "l", "i", "c", "a", "t", "i", "o", "n", "/", "j", "s", "o", "n">>>>,
     extension |-> <<"j", "s", "o", "n">>],
    [keys |-> <<<<"a", "p", "p", "l", "i", "c", "a", "t", "i", "o", "n", "/", "x", "m", "l">>,
               <<"t", "e", "x", "t", "/", "x", "m", "l">>>>,
     extension |-> <<"x", "m", "l">>],
    [keys |-> <<<<"a", "p", "p", "l", "i", "c", "a", "t", "i", "o", "n", "/", "z", "i", "p">>>>,
     extension |-> <<"z", "i", "p">>],
    [keys |-> <<<<"a", "p", "p", "l", "i", "c", "a", "t", "i", "o", "n", "/", "x", "-", "r", "a", "r">>>>,
     extension |-> <<"r", "a", "r">>],
    [keys |-> <<<<"a", "p", "p", "l", "i", "c", "a", "t", "i", "o", "n", "/", "x", "-", "7", "z", "-", "c", "o", "m", "p", "r", "e", "s", "s", "e", "d">>>>,
     extension |-> <<"7", "z">>],
    [keys |-> <<<<"v", "i", "d", "e", "o", "/", "m", "p", "4">>>>,
     extension |-> <<"m", "p", "4">>],
    [keys |-> <<<<"v", "i", "d", "e", "o", "/", "a", "v", "i">>>>,
     extension |-> <<"a", "v", "i">>],
    [keys |-> <<<<"a", "u", "d", "i", "o", "/", "m", "p", "e", "g">>>>,
     extension |-> <<"m", "p", "3">>],
    [keys |-> <<<<"a", "u", "d", "i", "o", "/", "w", "a", "v">>>>,
     extension |-> <<"w", "a", "v">>]
>>

bin == <<"b", "i", "n">>

html == <<"h", "t", "m", "l">>

txt == <<"t", "x", "t">>

MaxExtensionLength == 5

\* 'text/html' in content_type or 'application/xhtml' in content_type
IsHtml(ct) == \E k \in 1..Len(html_types) : Contains(ct, html_types[k])

RECURSIVE MimeExtensionFrom(_, _)
\* the if/elif chain from entry k on: the first entry with a key in content_type
MimeExtensionFrom(ct, k) ==
    IF k > Len(mime_table) THEN bin
    ELSE IF \E j \in 1..Len(mime_table[k].keys) : Contains(ct, mime_table[k].keys[j])
         THEN mime_table[k].extension
    ELSE MimeExtensionFrom(ct, k + 1)

\* a mutant of MimeExtension: the chain starts at its second entry
MimeExtensionNoPdf(ct) == MimeExtensionFrom(ct, 2)

\* extension after the if/elif chain
MimeExtension(ct) == MimeExtensionFrom(ct, 1)

\* re.match(r'^[a-zA-Z0-9]{1,5}$', e) (the path holds no line break)
IsReasonableExtension(e) ==
    /\ 1 <= Len(e) /\ Len(e) <= MaxExtensionLength
    /\ \A k \in 1..Len(e) : e[k] \in AsciiLetters \cup AsciiDigits

\* url_path.split('.')[-1]
AfterLastDot(url_path) == SubSeq(url_path, LastOf(url_path, {"."}) + 1, Len(url_path))

\* if re.match(...): extension = url_extension
ReasonableOrBin(url_extension) ==
    IF IsReasonableExtension(url_extension) THEN url_extension ELSE bin

\* a mutant of PathExtension: the suffix is not lowercased
PathExtensionAsWritten(url_path) ==
    IF "." \in Range(url_path) THEN ReasonableOrBin(AfterLastDot(url_path)) ELSE bin

\* the extension the path of the URL gives
PathExtension(url_path) ==
    IF "." \in Range(url_path) THEN ReasonableOrBin(LowerStr(AfterLastDot(url_path))) ELSE bin

\* the extension taken from the URL when content-type detection failed
UrlExtension(u) == PathExtension(UrlParse(u).path)

\* if extension == 'bin': try the URL
OrUrlExtension(extension, u) == IF extension = bin THEN UrlExtension(u) ELSE extension

\* extension of the non-HTML branch
FileExtension(ct, u) == OrUrlExtension(MimeExtension(ct), u)

\* the extension of the file get_webpage_file writes
SavedExtension(ct, u) == IF IsHtml(ct) THEN html ELSE FileExtension(ct, u)

\* url.replace(suffix, '') if url.endswith(suffix) else url
WithoutSuffix(u, suffix) == IF EndsWith(u, suffix) THEN Replace(u, suffix, <<>>) ELSE u

\* the name get_webpage_file saves under: the URL loses its '.extension' first
SavedFilename(u, extension) ==
    GetFilenameFromUrl(WithoutSuffix(u, <<".">> \o extension), extension)

(***************************************************************************)
(* get_webpage_file and get_webpage_text as downloads: the requests, the   *)
(* classification and the file written.                                    *)
(***************************************************************************)
\* the Content-Type headers a HEAD response carries in the model: none, the HTML
\* types, every entry of the chain, an unknown type, and headers that hold two entries
ContentTypes == {
    <<>>,
    <<"t", "e", "x", "t", "/", "h", "t", "m", "l">>,
    <<"t", "e", "x", "t", "/", "h", "t", "m", "l", ";", " ", "c", "h", "a", "r", "s", "e", "t", "=", "u", "t", "f", "-", "8">>,
    <<"T", "e", "x", "t", "/", "H", "T", "M", "L">>,
    <<"a", "p", "p", "l", "i", "c", "a", "t", "i", "o", "n", "/", "x", "h", "t", "m", "l", "+", "x", "m", "l">>,
    <<"a", "p", "p", "l", "i", "c", "a", "t", "i", "o", "n", "/", "p", "d", "f">>,
    <<"a", "p", "p", "l", "i", "c", "a", "t", "i", "o", "n", "/", "p", "d", "f", ";", " ", "c", "h", "a", "r", "s", "e", "t", "=", "b", "i", "n", "a", "r", "y">>,
    <<"A", "p", "p", "l", "i", "c", "a", "t", "i", "o", "n", "/", "P", "D", "F">>,
    <<"a", "p", "p", "l", "i", "c", "a", "t", "i", "o", "n", "/", "o", "c", "t", "e", "t", "-", "s", "t", "r", "e", "a", "m">>,
    <<"t", "e", "x", "t", "/", "h", "t", "m", "l", ",", " ", "a", "p", "p", "l", "i", "c", "a", "t", "i", "o", "n", "/", "p", "d", "f">>,
    <<"i", "m", "a", "g", "e", "/", "p", "n", "g", ",", " ", "a", "p", "p", "l", "i", "c", "a", "t", "i", "o", "n", "/", "p", "d", "f">>,
    <<"a", "p", "p", "l", "i", "c", "a", "t", "i", "o", "n", "/", "p", "d", "f", ",", " ", "i", "m", "a", "g", "e", "/", "p", "n", "g">>,
    <<"t", "e", "x", "t", "/", "p", "l", "a", "i", "n", ";", " ", "t", "e", "x", "t", "/", "c", "s", "v">>,
    <<"i", "m", "a", "g", "e", "/", "j", "p", "e", "g">>,
    <<"i", "m", "a", "g", "e", "/", "j", "p", "g">>,
    <<"i", "m", "a", "g", "e", "/", "p", "n", "g">>,
    <<"i", "m", "a", "g", "e", "/", "g", "i", "f">>,
    <<"i", "m", "a", "g", "e", "/", "w", "e", "b", "p">>,
    <<"i", "m", "a", "g", "e", "/", "s", "v", "g">>,
    <<"a", "p", "p", "l", "i", "c", "a", "t", "i", "o", "n", "/", "m", "s", "w", "o", "r", "d">>,
    <<"a", "p", "p", "l", "i", "c", "a", "t", "i", "o", "n", "/", "v", "n", "d", ".", "o", "p", "e", "n", "x", "m", "l", "f", "o", "r", "m", "a", "t", "s", "-", "o", "f", "f", "i", "c", "e", "d", "o", "c", "u", "m", "e", "n", "t", ".", "w", "o", "r", "d", "p", "r", "o", "c", "e", "s", "s", "i", "n", "g", "m", "l", ".", "d", "o", "c", "u", "m", "e", "n", "t">>,
    <<"a", "p", "p", "l", "i", "c", "a", "t", "i", "o", "n", "/", "v", "n", "d", ".", "m", "s", "-", "e", "x", "c", "e", "l">>,
    <<"a", "p", "p", "l", "i", "c", "a", "t", "i", "o", "n", "/", "v", "n", "d", ".", "o", "p", "e", "n", "x", "m", "l", "f", "o", "r", "m", "a", "t", "s", "-", "o", "f", "f", "i", "c", "e", "d", "o", "c", "u", "m", "e", "n", "t", ".", "s", "p", "r", "e", "a", "d", "s", "h", "e", "e", "t", "m", "l", ".", "s", "h", "e", "e", "t">>,
    <<"a", "p", "p", "l", "i", "c", "a", "t", "i", "o", "n", "/", "v", "n", "d", ".", "m", "s", "-", "p", "o", "w", "e", "r", "p", "o", "i", "n", "t">>,
    <<"a", "p", "p", "l", "i", "c", "a", "t", "i", "o", "n", "/", "v", "n", "d", ".", "o", "p", "e", "n", "x", "m", "l", "f", "o", "r", "m", "a", "t", "s", "-", "o", "f", "f", "i", "c", "e", "d", "o", "c", "u", "m", "e", "n", "t", ".", "p", "r", "e", "s", "e", "n", "t", "a", "t", "i", "o", "n", "m", "l", ".", "p", "r", "e", "s", "e", "n", "t", "a", "t", "i", "o", "n">>,
    <<"t", "e", "x", "t", "/", "p", "l", "a", "i", "n">>,
    <<"t", "e", "x", "t", "/", "c", "s", "v">>,
    <<"a", "p", "p", "l", "i", "c", "a", "t", "i", "o", "n", "/", "j", "s", "o", "n">>,
    <<"a", "p", "p", "l", "i", "c", "a", "t", "i", "o", "n", "/", "x", "m", "l">>,
    <<"t", "e", "x", "t", "/", "x", "m", "l">>,
    <<"a", "p", "p", "l", "i", "c", "a", "t", "i", "o", "n", "/", "z", "i", "p">>,
    <<"a", "p", "p", "l", "i", "c", "a", "t", "i", "o", "n", "/", "x", "-", "r", "a", "r">>,
    <<"a", "p", "p", "l", "i", "c", "a", "t", "i", "o", "n", "/", "x", "-", "7", "z", "-", "c", "o", "m", "p", "r", "e", "s", "s", "e", "d">>,
    <<"v", "i", "d", "e", "o", "/", "m", "p", "4">>,
    <<"v", "i", "d", "e", "o", "/", "a", "v", "i">>,
    <<"a", "u", "d", "i", "o", "/", "m", "p", "e", "g">>,
    <<"a", "u", "d", "i", "o", "/", "w", "a", "v">>
}

\* the Content-Type headers of the other responses
FewContentTypes == {
    <<>>,
    <<"t", "e", "x", "t", "/", "h", "t", "m", "l">>,
    <<"a", "p", "p", "l", "i", "c", "a", "t", "i", "o", "n", "/", "p", "d", "f">>,
    <<"a", "p", "p", "l", "i", "c", "a", "t", "i", "o", "n", "/", "o", "c", "t", "e", "t", "-", "s", "t", "r", "e", "a", "m">>
}

\* URLs with the cases of the classification and of the file naming
FixedUrls == {
    <<"h", "t", "t", "p", "s", ":", "/", "/", "E", "x", "a", "m", "p", "l", "e", ".", "c", "o", "m", "/", "a", "/", "b", "/", "c", ".", "h", "t", "m", "l">>,
    <<"h", "t", "t", "p", "s", ":", "/", "/", "x", ".", "c", "o", "m", "/", "r", "e", "p", "o", "r", "t", ".", "C", "S", "V">>,
    <<"h", "t", "t", "p", "s", ":", "/", "/", "x", ".", "c", "o", "m", "/", "n", "o", "e", "x", "t">>,
    <<"h", "t", "t", "p", "s", ":", "/", "/", "x", ".", "c", "o", "m", "/", "a", ".", "p", "d", "f">>,
    <<"h", "t", "t", "p", "s", ":", "/", "/", "x", ".", "c", "o", "m", "/", "a", ".", "b", "/", "c">>,
    <<"h", "t", "t", "p", "s", ":", "/", "/", "x", ".", "c", "o", "m", "/", "x", ".", "t", "o", "o", "l", "o", "n", "g">>,
    <<"h", "t", "t", "p", "s", ":", "/", "/", "x", ".", "c", "o", "m", "/", "x", ".">>,
    <<"h", "t", "t", "p", "s", ":", "/", "/", "h", ":", "8", "0", "/", "a", "+", "b">>,
    <<"h", "t", "t", "p", "s", ":", "/", "/", "a", ".", "p", "d", "f", ".", "c", "o", "m", "/", "x", ".", "p", "d", "f">>,
    <<"h", "t", "t", "p", "s", ":", "/", "/", "x", ".", "c", "o", "m", "/", "p", ".", "h", "t", "m", "l", "?", "q", "=", ".", "p", "n", "g", "#", "f", ".", "g", "i", "f">>,
    <<"h", "t", "t", "p", "s", ":", "/", "/", "x", ".", "c", "o", "m">>,
    <<"h", "t", "t", "p", "s", ":", "/", "/">>
}

\* the URLs the generated tails are appended to: one whose host and path stay under
\* 16 characters and one whose host and path exceed them
BaseUrls == {
    <<"h", "t", "t", "p", "s", ":", "/", "/", "x", ".", "c", "o", "m", "/", "a">>,
    <<"h", "t", "t", "p", "s", ":", "/", "/", "E", "x", "a", "m", "p", "l", "e", ".", "c", "o", "m", "/", "a", "/", "b", "/", "c">>
}

\* the characters of the generated tails
TailChars == {"a", ".", "*", " "}

\* every string of at most n tail characters
Tails(n) == UNION {[1..k -> TailChars] : k \in 0..n}

Urls == FixedUrls \cup {b \o t : b \in BaseUrls, t \in Tails(MaxTail)}

\* requests raises for a timeout and for a connection error; otherwise there is a
\* response, with a status of 2xx ("ok"), 3xx where no redirect is left to follow
\* ("redirect") or 4xx/5xx ("http_error"), and with its Content-Type header
HeadResponses ==
    {[outcome |-> "ok", content_type |-> ct] : ct \in ContentTypes}
        \cup {[outcome |-> "http_error", content_type |-> ct] : ct \in FewContentTypes}
        \cup {[outcome |-> o, content_type |-> <<>>] : o \in {"timeout", "connection_error"}}

GetResponses ==
    {[outcome |-> "ok", content_type |-> ct] : ct \in FewContentTypes}
        \cup {[outcome |-> o, content_type |-> <<>>] :
                o \in {"redirect", "http_error", "timeout", "connection_error"}}

\* requests.head(...) raises: no response at all
HeadRaises(response) == response.outcome \in {"timeout", "connection_error"}

\* a mutant of GetRaises: raise_for_status() is left out
GetRaisesNoStatusCheck(response) == response.outcome \in {"timeout", "connection_error"}

\* requests.get(...) or response.raise_for_status() raises: no response, or a
\* status of 4xx or 5xx
GetRaises(response) == response.outcome \in {"http_error", "timeout", "connection_error"}

old_file == [name |-> <<"o", "l", "d">>, content |-> [from |-> <<>>, kind |-> "old"]]

InitFetch ==
    /\ url \in Urls
    /\ fetch_call \in {"file", "text"}
    /\ head_response \in IF fetch_call = "file" THEN HeadResponses ELSE {NoResponse}
    /\ get_response \in GetResponses
    /\ fetch_pc = "call"
    /\ content_type = <<>>
    /\ requests_sent = <<>>
    /\ files \in {{}, {old_file}}
    /\ fetch_result = NoFetchResult
    /\ ChunkIdle
    /\ HtmlIdle
    /\ AppIdle

\* except requests.RequestException as e: return (f"Error downloading ...: {e}", "")
RequestError(message) ==
    [kind |-> "error", message |-> message, content |-> "",
     filename |-> <<>>, extension |-> <<>>]

\* with open(filepath, 'w') as f: f.write(content)
WriteFile(dir, name, file_content) ==
    {f \in dir : f.name # name} \cup {[name |-> name, content |-> file_content]}

\* get_webpage_file up to the HEAD request: requests.head() raises, or its
\* Content-Type header is kept in lower case
HeadRequest ==
    /\ fetch_pc = "call"
    /\ fetch_call = "file"
    /\ requests_sent' = Append(requests_sent, "HEAD")
    /\ IF HeadRaises(head_response)
       THEN /\ fetch_result' = RequestError("Error downloading file")
            /\ fetch_pc' = "returned"
            /\ UNCHANGED content_type
       ELSE /\ content_type' = LowerStr(head_response.content_type)
            /\ fetch_pc' = "head_done"
            /\ UNCHANGED fetch_result
    /\ UNCHANGED <<url, head_response, get_response, fetch_call, files>>
    /\ UNCHANGED chunk_vars
    /\ UNCHANGED app_vars
    /\ UNCHANGED html_vars

\* a mutant of SettledContentType: the header of the GET response comes first
SettledContentTypeGetFirst(head_type, get_type) ==
    IF get_type # <<>> THEN LowerStr(get_type) ELSE head_type

\* if not content_type: content_type = response.headers.get('content-type', '').lower()
SettledContentType(head_type, get_type) ==
    IF head_type = <<>> THEN LowerStr(get_type) ELSE head_type

\* get_webpage_file from the GET request to the content type it settles on
GetRequest ==
    /\ fetch_pc = "head_done"
    /\ fetch_call = "file"
    /\ requests_sent' = Append(requests_sent, "GET")
    /\ IF GetRaises(get_response)
       THEN /\ fetch_result' = RequestError("Error downloading file")
            /\ fetch_pc' = "returned"
            /\ UNCHANGED content_type
       ELSE /\ content_type' = SettledContentType(content_type, get_response.content_type)
            /\ fetch_pc' = "got"
            /\ UNCHANGED fetch_result
    /\ UNCHANGED <<url, head_response, get_response, fetch_call, files>>
    /\ UNCHANGED chunk_vars
    /\ UNCHANGED app_vars
    /\ UNCHANGED html_vars

\* the file is written and (response, content) returned, or open()/write() raises
\* IOError and the except clause returns (message, "")
WriteAndReturn(filename, extension, kind, io_message) ==
    \/ /\ files' = WriteFile(files, filename, [from |-> url, kind |-> kind])
       /\ fetch_result' = [kind |-> "response", message |-> "", content |-> kind,
                           filename |-> filename, extension |-> extension]
    \/ /\ fetch_result' = RequestError(io_message)
       /\ UNCHANGED files

SaveFileAs(extension, kind) ==
    WriteAndReturn(SavedFilename(url, extension), extension, kind, "Error saving file")

\* get_webpage_file from the branch on content_type to its return
SaveFile ==
    /\ fetch_pc = "got"
    /\ fetch_call = "file"
    /\ SaveFileAs(SavedExtension(content_type, url),
                  IF IsHtml(content_type) THEN "html" ELSE "binary")
    /\ fetch_pc' = "returned"
    /\ UNCHANGED <<url, head_response, get_response, fetch_call, content_type, requests_sent>>
    /\ UNCHANGED chunk_vars
    /\ UNCHANGED app_vars
    /\ UNCHANGED html_vars

\* get_webpage_text up to the GET request
TextGetRequest ==
    /\ fetch_pc = "call"
    /\ fetch_call = "text"
    /\ requests_sent' = Append(requests_sent, "GET")
    /\ IF GetRaises(get_response)
       THEN /\ fetch_result' = RequestError("Error downloading webpage")
            /\ fetch_pc' = "returned"
       ELSE /\ fetch_pc' = "got"
            /\ UNCHANGED fetch_result
    /\ UNCHANGED <<url, head_response, get_response, fetch_call, content_type, files>>
    /\ UNCHANGED chunk_vars
    /\ UNCHANGED app_vars
    /\ UNCHANGED html_vars

\* get_webpage_text from the parsed page to its return
SaveText ==
    /\ fetch_pc = "got"
    /\ fetch_call = "text"
    /\ WriteAndReturn(GetFilenameFromUrl(url, txt), txt, "text", "Error downloading webpage")
    /\ fetch_pc' = "returned"
    /\ UNCHANGED <<url, head_response, get_response, fetch_call, content_type, requests_sent>>
    /\ UNCHANGED chunk_vars
    /\ UNCHANGED app_vars
    /\ UNCHANGED html_vars

NextFetch ==
    \/ HeadRequest
    \/ GetRequest
    \/ SaveFile
    \/ TextGetRequest
    \/ SaveText

SpecFetch == InitFetch /\ [][NextFetch]_vars

(***************************************************************************)
(* Claims about the classification, the requests and the file naming.      *)
(***************************************************************************)
\* get_webpage_file returned (response, content): a file was written
FileSaved == fetch_call = "file" /\ fetch_pc = "returned" /\ fetch_result.kind = "response"

application_pdf == <<"a", "p", "p", "l", "i", "c", "a", "t", "i", "o", "n", "/", "p", "d", "f">>

\* the content type holds one of the substrings of entry k of the table
EntryMatches(k) ==
    \E j \in 1..Len(mime_table[k].keys) : Contains(content_type, mime_table[k].keys[j])

\* the content type holds text/html or application/xhtml
HtmlType ==
    \/ Contains(content_type, <<"t", "e", "x", "t", "/", "h", "t", "m", "l">>)
    \/ Contains(content_type, <<"a", "p", "p", "l", "i", "c", "a", "t", "i", "o", "n", "/", "x", "h", "t", "m", "l">>)

\* C14: a content type that holds text/html or application/xhtml takes the HTML path;
\* otherwise the first entry of the table with a substring in the content type gives
\* the extension, whatever the URL; so application/pdf gives "pdf" for every URL.
C14_MimeFirstMatchWins ==
    FileSaved =>
        /\ HtmlType => (fetch_result.content = "html" /\ fetch_result.extension = html)
        /\ ~HtmlType =>
               /\ fetch_result.content = "binary"
               /\ Contains(content_type, application_pdf)
                      => fetch_result.extension = <<"p", "d", "f">>
               /\ \A k \in 1..Len(mime_table) :
                      (EntryMatches(k) /\ \A j \in 1..(k - 1) : ~EntryMatches(j))
                          => fetch_result.extension = mime_table[k].extension

\* C14 witness: "application/pdf; charset=binary" for a URL that ends in .CSV is saved
\* as pdf
C14_Witness ==
    /\ FileSaved
    /\ content_type = <<"a", "p", "p", "l", "i", "c", "a", "t", "i", "o", "n", "/", "p", "d", "f", ";", " ", "c", "h", "a", "r", "s", "e", "t", "=", "b", "i", "n", "a", "r", "y">>
    /\ url = <<"h", "t", "t", "p", "s", ":", "/", "/", "x", ".", "c", "o", "m", "/", "r", "e", "p", "o", "r", "t", ".", "C", "S", "V">>
    /\ fetch_result.extension = <<"p", "d", "f">>

\* the text after the last '.' of path (path holds a '.')
SuffixOf(path) ==
    SubSeq(path, CHOOSE k \in 1..Len(path) :
                     path[k] = "." /\ \A j \in (k + 1)..Len(path) : path[j] # ".",
           Len(path))

\* the extension the claimed fallback gives for a URL path: the lowercased suffix when
\* there is a '.' and 1 to 5 letters or digits follow the last one, "bin" otherwise
ClaimedFallback(path) ==
    IF /\ \E k \in 1..Len(path) : path[k] = "."
       /\ Len(SuffixOf(path)) \in 2..6
       /\ \A k \in 2..Len(SuffixOf(path)) : SuffixOf(path)[k] \in AsciiLetters \cup AsciiDigits
    THEN LowerStr(Tail(SuffixOf(path)))
    ELSE <<"b", "i", "n">>

\* C15: when the content type is not HTML and matches no entry of the table, the
\* extension is the lowercased text after the last '.' of the URL path if that text
\* is 1 to 5 letters or digits, and "bin" in every other case.
C15_UrlSuffixFallback ==
    (FileSaved /\ ~HtmlType /\ \A k \in 1..Len(mime_table) : ~EntryMatches(k)) =>
        fetch_result.extension = ClaimedFallback(UrlParse(url).path)

\* C15 witness: no content type at all and https://x.com/report.CSV: saved as csv
C15_Witness ==
    /\ FileSaved
    /\ content_type = <<>>
    /\ url = <<"h", "t", "t", "p", "s", ":", "/", "/", "x", ".", "c", "o", "m", "/", "r", "e", "p", "o", "r", "t", ".", "C", "S", "V">>
    /\ fetch_result.extension = <<"c", "s", "v">>

\* C15 witness of the default: https://x.com/noext with an unknown type is saved as bin
C15_DefaultWitness ==
    /\ FileSaved
    /\ content_type = <<"a", "p", "p", "l", "i", "c", "a", "t", "i", "o", "n", "/", "o", "c", "t", "e", "t", "-", "s", "t", "r", "e", "a", "m">>
    /\ url = <<"h", "t", "t", "p", "s", ":", "/", "/", "x", ".", "c", "o", "m", "/", "n", "o", "e", "x", "t">>
    /\ fetch_result.extension = <<"b", "i", "n">>

\* C16 (as claimed): when the HEAD request fails (it raises, or its status is an
\* error) and the GET request succeeds, get_webpage_file returns a response, and the
\* file is classified by the content type of the GET response (a failure to write
\* the file aside).
C16_HeadFailureTolerated ==
    (/\ fetch_call = "file"
     /\ fetch_pc = "returned"
     /\ head_response.outcome # "ok"
     /\ get_response.outcome = "ok"
     /\ fetch_result.message # "Error saving file") =>
        /\ fetch_result.kind = "response"
        /\ fetch_result.extension = SavedExtension(LowerStr(get_response.content_type), url)

\* C17 (as claimed): the step in which the full request times out, cannot connect or
\* ends in a status that is not 2xx returns an error message with empty content and
\* leaves every file of the output directory as it was.
C17_Non2xxLeavesFiles ==
    [][(requests_sent' = Append(requests_sent, "GET") /\ get_response.outcome # "ok") =>
          /\ fetch_pc' = "returned"
          /\ fetch_result'.kind = "error"
          /\ fetch_result'.content = ""
          /\ files' = files]_vars

\* C17 (amended): the step in which the full request times out, cannot connect or
\* ends in a 4xx or 5xx status returns an error message with empty content and leaves
\* every file of the output directory as it was.
C17_FailedRequestLeavesFiles ==
    [][(/\ requests_sent' = Append(requests_sent, "GET")
        /\ get_response.outcome \in {"http_error", "timeout", "connection_error"}) =>
          /\ fetch_pc' = "returned"
          /\ fetch_result'.kind = "error"
          /\ fetch_result'.content = ""
          /\ files' = files]_vars

\* C17 witness: the full request ended in a 4xx or 5xx status with a file in the
\* directory; the call returned an error and the file is still the only one
C17_Witness ==
    /\ fetch_pc = "returned"
    /\ requests_sent # <<>>
    /\ requests_sent[Len(requests_sent)] = "GET"
    /\ get_response.outcome = "http_error"
    /\ fetch_result.kind = "error"
    /\ files = {old_file}

\* a download returned (response, content): a file was written
Saved == fetch_pc = "returned" /\ fetch_result.kind = "response"

\* the URL handed to _get_filename_from_url: get_webpage_file takes '.extension' out
\* of a URL that ends with it, get_webpage_text hands the URL on as it is
HandedUrl ==
    IF fetch_call = "file"
    THEN WithoutSuffix(url, <<".">> \o fetch_result.extension)
    ELSE url

\* host and path of the URL handed to _get_filename_from_url
HostAndPath == UrlParse(HandedUrl).netloc \o UrlParse(HandedUrl).path

separators == {"/", "\\", ".", "+"}

disallowed == {"<", ">", ":", "\"", "|", "?", "*"}

\* s without the dots and spaces at its two ends
Trimmed(s) ==
    SubSeq(s, FirstOf(s, {c \in Range(s) : c \notin {".", " "}}),
              LastOf(s, {c \in Range(s) : c \notin {".", " "}}))

\* the last 16 characters of s, "webpage" for an empty s
Last16(s) ==
    IF s = <<>> THEN <<"w", "e", "b", "p", "a", "g", "e">>
    ELSE SubSeq(s, IF Len(s) > 16 THEN Len(s) - 15 ELSE 1, Len(s))

\* the stem as claimed: separators become underscores, disallowed characters go
ClaimedStem ==
    Last16(Trimmed(SelectSeq([k \in 1..Len(HostAndPath) |->
                                 IF HostAndPath[k] \in separators THEN "_"
                                 ELSE HostAndPath[k]],
                             LAMBDA c : c \notin disallowed)))

\* the stem as amended: separators and disallowed characters become underscores
UnderscoredStem ==
    Last16(Trimmed([k \in 1..Len(HostAndPath) |->
                       IF HostAndPath[k] \in separators \cup disallowed THEN "_"
                       ELSE HostAndPath[k]]))

C18_TruncationWitness ==
    /\ Saved
    /\ Len(HostAndPath) > 16
    /\ Len(fetch_result.filename) = 16 + 1 + Len(fetch_result.extension)

(***************************************************************************)
(* The whitespace clean-up of get_webpage_text on any text: the page is    *)
(* one string, and nothing of it was removed by the cleaning.              *)
(***************************************************************************)
\* the characters of the texts: a letter and the three kinds of whitespace
TextChars == {"a", " ", "\t", "\n"}

PageTexts == UNION {[1..k -> TextChars] : k \in 0..MaxText}

InitWhitespace ==
    /\ doc \in {<<Node(Soup, TextNode(t))>> : t \in PageTexts}
    /\ alive = {1}
    /\ html_pc = "cleaned"
    /\ method = "text"
    /\ aggressive \in BOOLEAN
    /\ main_content = Soup
    /\ title_element = None
    /\ clean_pass = 0
    /\ output = NoOutput
    /\ ChunkIdle
    /\ FetchIdle
    /\ AppIdle

NextWhitespace == ExtractText

SpecWhitespace == InitWhitespace /\ [][NextWhitespace]_vars

\* no whitespace character at either end of s
NoOuterWhitespace(s) ==
    s # <<>> => (s[1] \notin TextWhitespace /\ s[Len(s)] \notin TextWhitespace)

\* C19 (as claimed): the text returned has no whitespace at either end and no two
\* adjacent whitespace characters, whatever whitespace the page text holds.
C19_NoAdjacentWhitespace ==
    html_pc = "done" =>
        /\ NoOuterWhitespace(output.text)
        /\ \A k \in 1..(Len(output.text) - 1) :
               ~(output.text[k] \in TextWhitespace /\ output.text[k + 1] \in TextWhitespace)

\* C19 (amended): the text returned has no whitespace at either end, no line break
\* and no two adjacent spaces; tabs inside a line are kept as they are, and when the
\* page text holds no tab the returned text has no two adjacent whitespace characters.
C19_NoDoubleSpaces ==
    html_pc = "done" =>
        /\ NoOuterWhitespace(output.text)
        /\ \A k \in 1..Len(output.text) : output.text[k] # "\n"
        /\ \A k \in 1..(Len(output.text) - 1) :
               ~(output.text[k] = " " /\ output.text[k + 1] = " ")
        /\ \A k \in 1..Len(output.text) :
               output.text[k] = "\t" =>
                   /\ 1 < k /\ k < Len(output.text)
                   /\ \E j \in 1..Len(doc[1].el.text) : doc[1].el.text[j] = "\t"
        /\ (\A j \in 1..Len(doc[1].el.text) : doc[1].el.text[j] # "\t") =>
               \A k \in 1..(Len(output.text) - 1) :
                   ~(output.text[k] \in TextWhitespace /\ output.text[k + 1] \in TextWhitespace)

\* C19 witness: the page text "a\t\ta" is returned as it is, two tabs in a row
C19_Witness ==
    /\ html_pc = "done"
    /\ doc[1].el.text = <<"a", "\t", "\t", "a">>
    /\ output.text = <<"a", "\t", "\t", "a">>

\* C19 witness of the clean-up: spaces and a line break between two letters come out
\* as one space
C19_SpacesWitness ==
    /\ html_pc = "done"
    /\ doc[1].el.text = <<"a", " ", "\n", "a">>
    /\ output.text = <<"a", " ", "a">>

(***************************************************************************)
(* The cleaning of pages made of containers and short texts.               *)
(***************************************************************************)
\* the elements of the pages of SpecShortText
ShortTextElements == {
    Element("div", NoClass, NoId, ""),
    Element("span", NoClass, NoId, ""),
    TextNode(<<"a">>),
    TextNode(<<"b", "c">>)
}

InitShortText ==
    /\ doc \in UNION {DocsOfLen(k, ShortTextElements) : k \in 1..MaxShortNodes}
    /\ alive = 1..Len(doc)
    /\ html_pc = "parsed"
    /\ method \in {"text", "file"}
    /\ aggressive \in BOOLEAN
    /\ main_content = None
    /\ title_element = None
    /\ clean_pass = 0
    /\ output = NoOutput
    /\ ChunkIdle
    /\ FetchIdle
    /\ AppIdle

SpecShortText == InitShortText /\ [][NextHtml]_vars

\* the div/span/section/article elements in the tree whose visible text is shorter
\* than 3 characters and that have no p, h1-h6, li, td or th below them
ShortDecorationsLeft ==
    {n \in alive :
        /\ IsTag(doc, n)
        /\ doc[n].el.name \in {"div", "span", "section", "article"}
        /\ Len(GetTextStripped(doc, alive, n)) < 3
        /\ \A m \in Descendants(doc, n) \cap alive :
               doc[m].el.name \notin {"p", "h1", "h2", "h3", "h4", "h5", "h6", "li", "td", "th"}}

\* C20 (as claimed): the pass of _aggressive_clean_html that has just run removes
\* nothing more when it is applied again to the tree it produced; and after the
\* short-text pass no div/span/section/article is left with a visible text shorter
\* than 3 characters and no p, h1-h6, li, td or th below it.
C20_PassesIdempotent ==
    (aggressive /\ clean_pass >= 1) =>
        /\ CleanPass(clean_pass, doc, alive) = alive
        /\ clean_pass = 9 => ShortDecorationsLeft = {}

\* every pass but the short-text pass removes nothing more when applied again
C20_OtherPassesIdempotent ==
    (aggressive /\ clean_pass >= 1 /\ clean_pass # 9) =>
        CleanPass(clean_pass, doc, alive) = alive

(***************************************************************************)
(* The cleaning of pages with embedded media.                              *)
(***************************************************************************)
\* the elements of the pages of SpecMedia
MediaElements == {
    Element("div", NoClass, NoId, ""),
    Element("p", NoClass, NoId, ""),
    Element("img", NoClass, NoId, ""),
    Element("video", NoClass, NoId, ""),
    TextNode(hello)
}

InitMedia == InitHtml(MediaElements)

SpecMedia == InitMedia /\ [][NextHtml]_vars

IsMedia(n) == IsTag(doc, n) /\ doc[n].el.name \in {"img", "video", "audio"}

\* element n has a visible text, or an img, video or audio below it, in the tree al
HasTextOrMedia(al, n) ==
    \/ GetTextStripped(doc, al, n) # <<>>
    \/ \E m \in Descendants(doc, n) \cap al : IsMedia(m)

\* C21 (as claimed): the last pass of _aggressive_clean_html keeps the img, video and
\* audio elements that are in the tree, and after it every element of the tree has a
\* visible text or an img, video or audio below it.
C21_FinalPassKeepsMedia ==
    [][(clean_pass = LastCleanPass - 1 /\ clean_pass' = LastCleanPass) =>
          /\ \A n \in alive : IsMedia(n) => n \in alive'
          /\ \A n \in alive' : IsTag(doc, n) => HasTextOrMedia(alive', n)]_vars

(***************************************************************************)
(* The cleaning of pages whose elements carry metadata classes and ids.    *)
(***************************************************************************)
meta == <<"m", "e", "t", "a">>
date == <<"d", "a", "t", "e">>
social == <<"s", "o", "c", "i", "a", "l">>
promo == <<"p", "r", "o", "m", "o">>

\* the elements of the pages of SpecMetadata
MetadataElements == {
    Element("body", <<social>>, NoId, ""),
    Element("main", <<meta>>, NoId, ""),
    Element("div", NoClass, meta, ""),
    Element("div", <<promo>>, NoId, ""),
    Element("h1", <<date>>, NoId, ""),
    Element("h1", NoClass, NoId, ""),
    Element("p", NoClass, NoId, ""),
    TextNode(hello)
}

InitMetadata == InitHtml(MetadataElements)

SpecMetadata == InitMetadata /\ [][NextHtml]_vars

\* the class string or the id of element n matches a pattern of non_content_patterns
IsMetadata(n) ==
    /\ IsTag(doc, n)
    /\ \/ doc[n].el.class # <<>> /\ MatchesNonContentPattern(ClassString(doc[n].el))
       \/ doc[n].el.id # <<>> /\ MatchesNonContentPattern(doc[n].el.id)

\* C22 (as claimed): the elements that match the non-content metadata patterns are
\* removed before the title is located, so the title _remove_non_main_content finds
\* is never such an element, and no truncation is driven by one.
C22_MetadataNeverTitle ==
    title_element # None => ~IsMetadata(title_element)

(***************************************************************************)
(* Two downloads into the same output_dir.  Each has its own response and  *)
(* its own buffers; the files of the directory are what they share.  A     *)
(* download is split where it touches the directory: open(filepath, 'w')   *)
(* creates or empties the file, and the buffered data reach the file, from *)
(* position 0 of the writer's own descriptor, when the with block closes   *)
(* it.                                                                     *)
(***************************************************************************)
Fetchers == {1, 2}

\* the URLs of the two downloads: the first two give the same file name stem
PairUrls == {
    <<"h", "t", "t", "p", "s", ":", "/", "/", "x", ".", "c", "o", "m", "/", "a", ".", "b">>,
    <<"h", "t", "t", "p", "s", ":", "/", "/", "x", ".", "c", "o", "m", "/", "a", "/", "b">>,
    <<"h", "t", "t", "p", "s", ":", "/", "/", "x", ".", "c", "o", "m", "/", "c">>
}

PairContentTypes == {
    <<"t", "e", "x", "t", "/", "h", "t", "m", "l">>,
    <<"a", "p", "p", "l", "i", "c", "a", "t", "i", "o", "n", "/", "p", "d", "f">>
}

\* the characters download p received: each names its download and its position
Body(p, n) == [i \in 1..n |-> <<p, i>>]

\* what one download is called with and what the server is going to answer
FetcherInputs(p) ==
    {[url |-> u, call |-> c, response |-> r, body |-> Body(p, n), pc |-> "call",
      filename |-> <<>>] :
        u \in PairUrls, c \in {"file", "text"}, n \in 1..MaxBody,
        r \in {[outcome |-> "ok", content_type |-> ct] : ct \in PairContentTypes}
                \cup {[outcome |-> "http_error", content_type |-> <<>>]}}

InitPair ==
    /\ fetchers \in {<<a, b>> : a \in FetcherInputs(1), b \in FetcherInputs(2)}
    /\ directory = {}
    /\ cache = <<>>
    /\ db_files = {}
    /\ db_messages = <<>>
    /\ uuid_count = 0
    /\ app_pc = "idle"
    /\ app_result = <<>>
    /\ viewer_content = NoViewerContent
    /\ ChunkIdle
    /\ HtmlIdle
    /\ FetchIdle

\* the file name of a download whose requests succeeded
PairFilename(f) ==
    IF f.call = "text"
    THEN GetFilenameFromUrl(f.url, txt)
    ELSE SavedFilename(f.url, SavedExtension(LowerStr(f.response.content_type), f.url))

\* open(filepath, 'w'): the file is created, or emptied if it is there
OpenForWriting(dir, name) ==
    {f \in dir : f.name # name} \cup {[name |-> name, content |-> <<>>]}

ContentOf(dir, name) == (CHOOSE f \in dir : f.name = name).content

\* the buffered data written at position 0 of a file that holds old
WriteAtStart(old, data) == data \o SubSeq(old, Len(data) + 1, Len(old))

\* f.write(...) and the end of the with block
WriteAndClose(dir, name, data) ==
    {f \in dir : f.name # name}
        \cup {[name |-> name, content |-> WriteAtStart(ContentOf(dir, name), data)]}

\* get_webpage_file / get_webpage_text of download p, up to the response
PairRequest(p) ==
    /\ fetchers[p].pc = "call"
    /\ fetchers' = [fetchers EXCEPT ![p].pc =
                        IF GetRaises(fetchers[p].response) THEN "failed" ELSE "got"]
    /\ UNCHANGED <<directory, cache, db_files, db_messages, uuid_count, app_pc,
                   app_result, viewer_content>>
    /\ UNCHANGED chunk_vars
    /\ UNCHANGED html_vars
    /\ UNCHANGED fetch_vars

\* download p: from the response to open(filepath, 'w')
PairOpen(p) ==
    /\ fetchers[p].pc = "got"
    /\ fetchers' = [fetchers EXCEPT ![p].pc = "opened",
                                    ![p].filename = PairFilename(fetchers[p])]
    /\ directory' = OpenForWriting(directory, PairFilename(fetchers[p]))
    /\ UNCHANGED <<cache, db_files, db_messages, uuid_count, app_pc, app_result,
                   viewer_content>>
    /\ UNCHANGED chunk_vars
    /\ UNCHANGED html_vars
    /\ UNCHANGED fetch_vars

\* download p: f.write(...), the end of the with block and the return
PairWrite(p) ==
    /\ fetchers[p].pc = "opened"
    /\ fetchers' = [fetchers EXCEPT ![p].pc = "returned"]
    /\ directory' = WriteAndClose(directory, fetchers[p].filename, fetchers[p].body)
    /\ app_result' = Append(app_result, p)
    /\ UNCHANGED <<cache, db_files, db_messages, uuid_count, app_pc, viewer_content>>
    /\ UNCHANGED chunk_vars
    /\ UNCHANGED html_vars
    /\ UNCHANGED fetch_vars

NextPair ==
    \/ \E p \in Fetchers : PairRequest(p)
    \/ \E p \in Fetchers : PairOpen(p)
    \/ \E p \in Fetchers : PairWrite(p)

SpecPair == InitPair /\ [][NextPair]_vars

BothWritten == \A p \in Fetchers : fetchers[p].pc = "returned"

FilesNamed(name) == {f \in directory : f.name = name}

\* C23 (as claimed): once two downloads have written, in whatever interleaving, each
\* file name they wrote names a single file; when the two names are the same, the
\* file holds what the download that wrote last received, and when they differ, each
\* file holds what its own download received.
C23_LastWriterWins ==
    BothWritten =>
        /\ \A p \in Fetchers : Cardinality(FilesNamed(fetchers[p].filename)) = 1
        /\ (fetchers[1].filename = fetchers[2].filename /\ fetchers[1].url # fetchers[2].url) =>
               ContentOf(directory, fetchers[1].filename) = fetchers[app_result[2]].body
        /\ fetchers[1].filename # fetchers[2].filename =>
               \A p \in Fetchers :
                   ContentOf(directory, fetchers[p].filename) = fetchers[p].body

(***************************************************************************)
(* The database (database.py) and ingest_cache (utility_functions.py).     *)
(* uuid.uuid4() is modelled by a counter: every call gives a new value.    *)
(***************************************************************************)
\* max_message_size: int = 8192
default_max_message_size == 8192

\* uuid.uuid4(): the value of the call after n earlier calls
Uuid4(n) == n + 1

\* session.add(new_file); session.commit() with file_id as primary key: an id
\* that is in the table raises IntegrityError, a SQLAlchemyError, and nothing is added
CommitFile(table, row) ==
    IF \E f \in table : f.file_id = row.file_id THEN table ELSE table \cup {row}

\* what create_file returns: the File, or None after the rollback
CreateFileResult(table, row) ==
    IF \E f \in table : f.file_id = row.file_id THEN "None" ELSE "File"

\* the rows create_message adds for the chunks, with ids uuid4() from n on
MessageRows(chunks, n, file_id, context_id) ==
    [k \in 1..Len(chunks) |->
        [id |-> Uuid4(n + k - 1), message_type |-> "file", message_text |-> chunks[k],
         file_id |-> file_id, context_id |-> context_id]]

\* the character U+2019, the right single quotation mark
rsquo == "U+2019"

\* text.replace(unicode_char, replacement) for the replacements of
\* replace_unicode_chars that touch the characters of the model
ReplaceUnicodeChars(text) == [k \in 1..Len(text) |-> IF text[k] = rsquo THEN "'" ELSE text[k]]

binary_prefix == <<"[", "B", "i", "n", "a", "r", "y", " ", "f", "i", "l", "e", " ",
                   "c", "o", "n", "t", "e", "n", "t", " ", "-", " ">>

\* get_file_text(filename, file_bytes) for a file name that does not end in .pdf
get_file_text(filename, file_bytes) ==
    ReplaceUnicodeChars(IF file_bytes.utf8 THEN file_bytes.data
                        ELSE binary_prefix \o filename \o <<"]">>)

a_txt == <<"a", ".", "t", "x", "t">>

b_txt == <<"b", ".", "t", "x", "t">>

FileChars == {"a", " ", rsquo}

\* what a file of tmp_files/ can hold: text in UTF-8, or bytes that are not UTF-8
FileContents ==
    {[utf8 |-> TRUE, data |-> d] : d \in UNION {[1..k -> FileChars] : k \in 0..MaxFileLen}}
        \cup {[utf8 |-> FALSE, data |-> <<"\\xff">>]}

\* the orders os.listdir can give for at most MaxFiles of the two file names
Listings ==
    {l \in UNION {[1..k -> {a_txt, b_txt}] : k \in 0..MaxFiles} :
        \A i, j \in 1..Len(l) : l[i] = l[j] => i = j}

InitIngest ==
    /\ cache \in Listings
    /\ directory \in {{[name |-> cache[k], content |-> c[k]] : k \in 1..Len(cache)} :
                        c \in [1..Len(cache) -> FileContents]}
    /\ db_files = {}
    /\ db_messages = <<>>
    /\ uuid_count = 0
    /\ app_pc = "call"
    /\ app_result = <<>>
    /\ fetchers = <<>>
    /\ viewer_content = NoViewerContent
    /\ ChunkIdle
    /\ HtmlIdle
    /\ FetchIdle

\* one turn of the loop of ingest_cache over a file that split_content_to_chunks
\* raises on: the File is created, the exception leaves the loop and the function
IngestRaises(filename, file_bytes, file_id) ==
    /\ db_files' = CommitFile(db_files, [file_id |-> file_id, file_name |-> filename,
                                         file_content |-> file_bytes,
                                         file_size |-> Len(file_bytes.data)])
    /\ uuid_count' = uuid_count + 1
    /\ app_result' = Append(app_result, "raised")
    /\ app_pc' = "returned"
    /\ UNCHANGED db_messages

\* one turn of the loop of ingest_cache that reaches its end
IngestStores(filename, file_bytes, file_id, chunks) ==
    /\ db_files' = CommitFile(db_files, [file_id |-> file_id, file_name |-> filename,
                                         file_content |-> file_bytes,
                                         file_size |-> Len(file_bytes.data)])
    /\ db_messages' = db_messages \o MessageRows(chunks, uuid_count + 1, file_id, "None")
    /\ uuid_count' = uuid_count + 1 + Len(chunks)
    /\ app_result' = Append(app_result, "stored")
    /\ UNCHANGED app_pc

IngestFileAs(filename, file_bytes, file_id, chunked) ==
    IF chunked.raised # "none"
    THEN IngestRaises(filename, file_bytes, file_id)
    ELSE IngestStores(filename, file_bytes, file_id, chunked.chunks)

\* ingest_cache: the body of for filename in filenames, for the next file
IngestFile ==
    /\ app_pc = "call"
    /\ Len(app_result) < Len(cache)
    /\ IngestFileAs(cache[Len(app_result) + 1],
                    ContentOf(directory, cache[Len(app_result) + 1]),
                    Uuid4(uuid_count),
                    split_content_to_chunks(
                        get_file_text(cache[Len(app_result) + 1],
                                      ContentOf(directory, cache[Len(app_result) + 1])),
                        default_max_message_size))
    /\ UNCHANGED <<fetchers, directory, cache, viewer_content>>
    /\ UNCHANGED chunk_vars
    /\ UNCHANGED html_vars
    /\ UNCHANGED fetch_vars

\* ingest_cache: clear_cache() after the loop
ClearCache ==
    /\ app_pc = "call"
    /\ Len(app_result) = Len(cache)
    /\ directory' = {}
    /\ app_pc' = "returned"
    /\ UNCHANGED <<fetchers, cache, db_files, db_messages, uuid_count, app_result,
                   viewer_content>>
    /\ UNCHANGED chunk_vars
    /\ UNCHANGED html_vars
    /\ UNCHANGED fetch_vars

NextIngest ==
    \/ IngestFile
    \/ ClearCache

SpecIngest == InitIngest /\ [][NextIngest]_vars

\* the texts of the messages stored for a file, in the order of creation
MessageTextsOf(file_id) ==
    LET rows == {k \in 1..Len(db_messages) : db_messages[k].file_id = file_id}
    IN  [j \in 1..Cardinality(rows) |->
            db_messages[CHOOSE k \in rows : Cardinality({i \in rows : i < k}) = j - 1].message_text]

\* C24 (as claimed): when ingest_cache has returned, every file that was listed has
\* a File record, the cache is empty, and the messages of every file whose text can
\* be chunked are its chunks.
C24_EveryFileIngested ==
    app_pc = "returned" =>
        /\ directory = {}
        /\ \A k \in 1..Len(cache) :
               \E f \in db_files :
                   /\ f.file_name = cache[k]
                   /\ LET chunked == split_content_to_chunks(
                                         get_file_text(cache[k], f.file_content),
                                         default_max_message_size)
                      IN  chunked.raised = "none" =>
                              MessageTextsOf(f.file_id) = chunked.chunks

(***************************************************************************)
(* create_file (database.py) called several times in one process.         *)
(***************************************************************************)
\* def create_file(..., file_id: Optional[uuid.UUID] = uuid.uuid4()): the default is
\* the value of the one call of uuid4() made when the def statement is executed
default_file_id == Uuid4(0)

InitCreateFile ==
    /\ db_files = {}
    /\ db_messages = <<>>
    /\ uuid_count = 1
    /\ app_pc = "running"
    /\ app_result = <<>>
    /\ fetchers = <<>>
    /\ directory = {}
    /\ cache = <<>>
    /\ viewer_content = NoViewerContent
    /\ ChunkIdle
    /\ HtmlIdle
    /\ FetchIdle

\* the body of create_file for the row it is called with
CreateFileRow(row, omitted) ==
    /\ db_files' = CommitFile(db_files, row)
    /\ app_result' = Append(app_result, [file_id_omitted |-> omitted,
                                         returned |-> CreateFileResult(db_files, row)])

\* create_file(file_name, file_content, file_size), as import_file_button and the
\* Ingest Response button of display_content_viewer call it
CreateFile ==
    /\ app_pc = "running"
    /\ Len(app_result) < MaxCalls
    /\ \E file_name \in {a_txt, b_txt}, file_content \in FileContents :
           CreateFileRow([file_id |-> default_file_id, file_name |-> file_name,
                          file_content |-> file_content,
                          file_size |-> Len(file_content.data)], TRUE)
    /\ UNCHANGED <<fetchers, directory, cache, db_messages, uuid_count, app_pc,
                   viewer_content>>
    /\ UNCHANGED chunk_vars
    /\ UNCHANGED html_vars
    /\ UNCHANGED fetch_vars

\* create_file(..., file_id=uuid.uuid4()), as ingest_cache calls it
CreateFileWithId ==
    /\ app_pc = "running"
    /\ Len(app_result) < MaxCalls
    /\ \E file_name \in {a_txt, b_txt}, file_content \in FileContents :
           CreateFileRow([file_id |-> Uuid4(uuid_count), file_name |-> file_name,
                          file_content |-> file_content,
                          file_size |-> Len(file_content.data)], FALSE)
    /\ uuid_count' = uuid_count + 1
    /\ UNCHANGED <<fetchers, directory, cache, db_messages, app_pc, viewer_content>>
    /\ UNCHANGED chunk_vars
    /\ UNCHANGED html_vars
    /\ UNCHANGED fetch_vars

NextCreateFile ==
    \/ CreateFile
    \/ CreateFileWithId

SpecCreateFile == InitCreateFile /\ [][NextCreateFile]_vars

\* C25 (as claimed): every call of create_file that leaves file_id out returns a File,
\* and every call made so far has left a record of its own, with its own file_id.
C25_FreshIdPerCall ==
    /\ \A k \in 1..Len(app_result) :
           app_result[k].file_id_omitted => app_result[k].returned = "File"
    /\ Cardinality({f.file_id : f \in db_files}) = Len(app_result)

(***************************************************************************)
(* add_file_to_context (content_viewer_functions.py) next to               *)
(* split_content_to_chunks, on the text of one stored file.  A context is  *)
(* selected and the database accepts every row.                            *)
(***************************************************************************)
\* a mutant of FitsInOneMessage: < for <=
FitsInOneMessageStrict(len, size) == len < size

\* if len(file_content) <= max_message_size
FitsInOneMessage(len, size) == len <= size

\* the message texts add_file_to_context creates for file_content, in order
AddFileMessages(file_content, size) ==
    IF FitsInOneMessage(Len(file_content), size)
    THEN <<file_content>>
    ELSE ChunkLoop(Split(file_content), NumMessages(Len(file_content), size),
                   Len(Split(file_content)) \div NumMessages(Len(file_content), size),
                   Len(Split(file_content)) % NumMessages(Len(file_content), size),
                   0, 0, <<>>)

current_context_id == "context"

\* the File the content viewer shows: its text is what both chunkings are given
InitContext ==
    /\ db_files \in {{[file_id |-> Uuid4(0), file_name |-> a_txt,
                       file_content |-> [utf8 |-> TRUE, data |-> d],
                       file_size |-> Len(d)]} : d \in Texts(MaxLen)}
    /\ content \in {get_file_text(f.file_name, f.file_content) : f \in db_files}
    /\ max_message_size \in 1..MaxSize
    /\ chunk_pc = "call"
    /\ chunk_result = NoResult
    /\ db_messages = <<>>
    /\ uuid_count = 1
    /\ app_pc = "call"
    /\ app_result = <<>>
    /\ fetchers = <<>>
    /\ directory = {}
    /\ cache = <<>>
    /\ viewer_content = NoViewerContent
    /\ HtmlIdle
    /\ FetchIdle

AddFileRows(file_obj, size) ==
    MessageRows(AddFileMessages(get_file_text(file_obj.file_name, file_obj.file_content), size),
                uuid_count, "None", current_context_id)

\* add_file_to_context(file_id, max_message_size) for the file of the table
AddFileToContext ==
    /\ app_pc = "call"
    /\ \E file_obj \in db_files :
           /\ db_messages' = db_messages \o AddFileRows(file_obj, max_message_size)
           /\ uuid_count' = uuid_count + Len(AddFileRows(file_obj, max_message_size))
    /\ app_result' = Append(app_result, TRUE)
    /\ app_pc' = "returned"
    /\ UNCHANGED <<fetchers, directory, cache, db_files, viewer_content>>
    /\ UNCHANGED chunk_vars
    /\ UNCHANGED html_vars
    /\ UNCHANGED fetch_vars

NextContext ==
    \/ AddFileToContext
    \/ SplitContentToChunks

SpecContext == InitContext /\ [][NextContext]_vars

\* the texts of the messages stored for the current context, in the order of creation
StoredTexts == [k \in 1..Len(db_messages) |-> db_messages[k].message_text]

BothChunked == app_pc = "returned" /\ chunk_pc = "return" /\ content # <<>>

C26_OneMessageWitness ==
    /\ BothChunked
    /\ Len(content) <= max_message_size
    /\ StoredTexts # chunk_result.chunks

(***************************************************************************)
(* The Get Page and Get Text buttons (sidebar_functions.py) and the Add to *)
(* Context button of the content viewer (content_viewer.py).  A context is *)
(* selected and the database accepts every row.                            *)
(***************************************************************************)
\* Python's None where a string is expected, and a string
NoContent == [none |-> TRUE, text |-> <<>>]

StrContent(text) == [none |-> FALSE, text |-> text]

PageChars == {"a", "-", " "}

\* what WebClient returns as content: the text of the page, or "" with an error
ClientContents == UNION {[1..k -> PageChars] : k \in 0..MaxPage}

\* download_webpage: if webpage_content: return response, webpage_content
\* else: return response, None
download_webpage(client_content) ==
    IF client_content # <<>> THEN StrContent(client_content) ELSE NoContent

Digit(n) == <<"0", "1", "2", "3", "4", "5", "6", "7", "8", "9">>[n + 1]

RECURSIVE Str(_)
\* str(n) for n >= 0
Str(n) == IF n < 10 THEN <<Digit(n)>> ELSE Str(n \div 10) \o <<Digit(n % 10)>>

\* get_token_length(input_text)[0] for a string, with the approximation the function
\* falls back to: max(1, len(text) // 4)
TokenLength(text) == IF Len(text) \div 4 > 1 THEN Len(text) \div 4 ELSE 1

content_length == <<"*", "*", "C", "o", "n", "t", "e", "n", "t", " ", "L", "e", "n", "g", "t", "h",
                    ":", "*", "*", " ">>

tokens_line == <<" ", "t", "o", "k", "e", "n", "s", "\n">>

separator == <<"-", "-", "-">>

\* success_message of get_webpage_button
SuccessMessage(token_length, text_only) ==
    content_length \o Str(token_length) \o tokens_line
        \o (IF text_only THEN separator ELSE separator \o <<"\n", "\n">>)

InitViewer ==
    /\ viewer_content = NoViewerContent
    /\ app_pc = "sidebar"
    /\ app_result = <<>>
    /\ db_files = {}
    /\ db_messages = <<>>
    /\ uuid_count = 0
    /\ fetchers = <<>>
    /\ directory = {}
    /\ cache = <<>>
    /\ ChunkIdle
    /\ HtmlIdle
    /\ FetchIdle

\* get_token_length(webpage_content) raises ValueError for None: the handler ends
\* there, and the exception goes to Streamlit
ButtonRaises(webpage_content) ==
    /\ app_pc' = "raised"
    /\ app_result' = Append(app_result, [webpage_content |-> webpage_content,
                                         raised |-> "ValueError"])
    /\ UNCHANGED viewer_content

\* the else branch of if not webpage_content, and st.rerun(); the if branch is never
\* taken, because a content that is not None is not empty
ButtonShows(webpage_content, text_only) ==
    /\ app_pc' = "viewer"
    /\ app_result' = Append(app_result, [webpage_content |-> webpage_content,
                                         raised |-> "none"])
    /\ viewer_content' =
           [type |-> IF text_only THEN "webpage_text" ELSE "webpage",
            data |-> SuccessMessage(TokenLength(webpage_content.text), text_only)
                         \o webpage_content.text]

ButtonPressed(webpage_content, text_only) ==
    IF webpage_content.none
    THEN ButtonRaises(webpage_content)
    ELSE ButtonShows(webpage_content, text_only)

\* get_webpage_button: Get Page (text_only = FALSE) or Get Text (text_only = TRUE)
\* pressed with a URL in the input field
GetWebpageButton ==
    /\ app_pc = "sidebar"
    /\ \E text_only \in BOOLEAN, client_content \in ClientContents :
           ButtonPressed(download_webpage(client_content), text_only)
    /\ UNCHANGED <<fetchers, directory, cache, db_files, db_messages, uuid_count>>
    /\ UNCHANGED chunk_vars
    /\ UNCHANGED html_vars
    /\ UNCHANGED fetch_vars

\* webpage_content = viewer_data.split("---")[1]
ViewedContent(viewer_data) == SplitOn(viewer_data, separator)[2]

\* Add to Context: split_content_to_chunks raises, and the exception goes to Streamlit
AddRaises ==
    /\ app_pc' = "raised"
    /\ app_result' = Append(app_result, [webpage_content |-> NoContent,
                                         raised |-> "ZeroDivisionError"])
    /\ UNCHANGED <<db_messages, uuid_count>>

\* Add to Context: one message per chunk
AddStores(chunks) ==
    /\ app_pc' = "added"
    /\ db_messages' = db_messages \o MessageRows(chunks, uuid_count, "None", current_context_id)
    /\ uuid_count' = uuid_count + Len(chunks)
    /\ UNCHANGED app_result

AddChunked(chunked) ==
    IF chunked.raised # "none" THEN AddRaises ELSE AddStores(chunked.chunks)

\* display_content_viewer, case "webpage" and case "webpage_text": Add to Context
AddToContextButton ==
    /\ app_pc = "viewer"
    /\ AddChunked(split_content_to_chunks(ViewedContent(viewer_content.data),
                                          default_max_message_size))
    /\ UNCHANGED <<fetchers, directory, cache, db_files, viewer_content>>
    /\ UNCHANGED chunk_vars
    /\ UNCHANGED html_vars
    /\ UNCHANGED fetch_vars

NextViewer ==
    \/ GetWebpageButton
    \/ AddToContextButton

SpecViewer == InitViewer /\ [][NextViewer]_vars

error_heading == <<"#", "#", "#", " ", "E", "r", "r", "o", "r", " ", "D", "o", "w", "n", "l", "o",
                   "a", "d", "i", "n", "g", " ", "W", "e", "b", "p", "a", "g", "e">>

\* the download of the last button press gave no content
DownloadFailed ==
    app_pc \in {"raised", "viewer"} /\ app_result[1].webpage_content.none

\* C27 (as claimed): when the download gave no content, the handler of Get Page and
\* Get Text does not raise, and viewer_content is the markdown error view.
C27_FailureShowsErrorView ==
    DownloadFailed =>
        /\ app_result[1].raised = "none"
        /\ viewer_content.type = "markdown"
        /\ OccursAt(viewer_content.data, error_heading, 1)

\* the words of the message texts, in order
RECURSIVE WordsOf(_)
WordsOf(texts) == IF texts = <<>> THEN <<>> ELSE Split(Head(texts)) \o WordsOf(Tail(texts))

\* C28 (as claimed): Add to Context does not raise, and the words of the messages it
\* stores, in order, are the words of the downloaded content, also when the content
\* holds "---".
C28_WholePageStored ==
    app_pc \in {"added", "raised"} /\ app_result[1].raised = "none" =>
        /\ app_pc = "added"
        /\ WordsOf(StoredTexts) = Split(app_result[1].webpage_content.text)

(***************************************************************************)
(* Claims about the removal by class and id patterns.                      *)
(***************************************************************************)
\* the joined class string or the id of element n holds one of the words
HoldsWord(n, words) ==
    /\ IsTag(doc, n)
    /\ \E w \in words :
           \/ Contains(LowerStr(JoinWith(<<" ">>, doc[n].el.class)), w)
           \/ Contains(LowerStr(doc[n].el.id), w)

\* the step from..to removed every element of the tree that holds one of the words,
\* with everything below it, and nothing else
RemovesExactly(words, from, to) ==
    /\ \A n \in from : HoldsWord(n, words) => ({n} \cup Descendants(doc, n)) \cap to = {}
    /\ \A n \in from \ to :
           \E m \in from : HoldsWord(m, words) /\ n \in {m} \cup Descendants(doc, m)
    /\ to \subseteq from

\* C29: the pattern step of _remove_non_main_content and the pattern pass of
\* _aggressive_clean_html remove every element whose class string or id matches one
\* of their patterns, with its whole subtree, whether or not it is the content root,
\* the body or an ancestor of the title; and they remove nothing else.
C29_PatternsRemoveWithoutExemption ==
    [][/\ (html_pc = "truncated" /\ html_pc' = "non_main_removed") =>
              RemovesExactly({meta, date, social}, alive, alive')
       /\ (clean_pass = 2 /\ clean_pass' = 3) =>
              RemovesExactly({meta, social, promo}, alive, alive')]_vars

\* the content root that was located matches a pattern and holds the title: the
\* pattern step has removed both
C29_Witness ==
    /\ html_pc = "non_main_removed"
    /\ main_content \in 1..Len(doc)
    /\ HoldsWord(main_content, {meta})
    /\ title_element \in Descendants(doc, main_content)
    /\ main_content \notin alive
    /\ title_element \notin alive

\* the pattern pass of _aggressive_clean_html has removed an element that the pattern
\* step of _remove_non_main_content had left
C29_AdWitness ==
    /\ clean_pass = 3
    /\ \E n \in 1..Len(doc) :
           /\ HoldsWord(n, {promo})
           /\ n \notin alive
           /\ \A m \in Ancestors(doc, n) : m = Soup \/ ~HoldsWord(m, {meta, date, social, promo})

(***************************************************************************)
(* Claims about the two requests of get_webpage_file.                      *)
(***************************************************************************)
\* the Content-Type the claim says decides: the one of the HEAD response when it has
\* one, the one of the GET response otherwise
DecisiveContentType ==
    IF head_response.content_type # <<>>
    THEN LowerStr(head_response.content_type)
    ELSE LowerStr(get_response.content_type)

\* C30: get_webpage_file sends the HEAD request before the GET request, and the branch
\* between HTML and binary and the file extension follow the Content-Type of the HEAD
\* response whenever it is not empty, whatever the status of the HEAD response; the
\* Content-Type of the GET response decides only when the HEAD response has none.
C30_HeadDecidesContentType ==
    fetch_call = "file" =>
        /\ requests_sent \in {<<>>, <<"HEAD">>, <<"HEAD", "GET">>}
        /\ requests_sent = <<"HEAD", "GET">> /\ ~GetRaises(get_response) =>
               content_type = DecisiveContentType
        /\ fetch_pc = "returned" /\ fetch_result.kind = "response" =>
               /\ requests_sent = <<"HEAD", "GET">>
               /\ fetch_result.content =
                      IF IsHtml(DecisiveContentType) THEN "html" ELSE "binary"
               /\ fetch_result.extension = SavedExtension(DecisiveContentType, url)

\* a HEAD response with an error status names a PDF, the GET response names HTML:
\* the file was saved as binary
C30_Witness ==
    /\ fetch_call = "file"
    /\ fetch_pc = "returned"
    /\ fetch_result.kind = "response"
    /\ head_response.outcome = "http_error"
    /\ head_response.content_type # <<>>
    /\ ~IsHtml(head_response.content_type)
    /\ IsHtml(get_response.content_type)
    /\ fetch_result.content = "binary"

\* the HEAD response has no Content-Type: the one of the GET response decided
C30_GetWitness ==
    /\ fetch_call = "file"
    /\ fetch_pc = "returned"
    /\ fetch_result.kind = "response"
    /\ head_response.content_type = <<>>
    /\ IsHtml(get_response.content_type)
    /\ fetch_result.content = "html"

====
